---- MODULE Spec2Model ----
(***************************************************************************)
(* A model of the drawpyo reader / writer extensions:                      *)
(*   - reader/style_parser.py   StyleParser (style micro-language)         *)
(*   - reader/decompressor.py   DrawioDecompressor (base64 + raw deflate)  *)
(*   - reader/parser.py         DrawioParser (outer mxfile markup)         *)
(*   - reader/converter.py      XmlToPythonConverter (import, two passes)  *)
(*   - writer/__init__.py       DrawioWriter (export)                      *)
(*                                                                         *)
(* Text is modelled as a sequence of characters, each character being a    *)
(* one-element name ("a", "=", ";", ...).  The name "sup2" stands for the  *)
(* character U+00B2 (superscript two), a character for which Python's      *)
(* str.isdigit() is true while int() and float() reject it.                *)
(***************************************************************************)
EXTENDS Integers, Sequences, FiniteSets, TLC

VARIABLES
    \* ---- StyleParser: the call under way ----
    style,        \* the style string given to the call
    styleMap,     \* the mapping given to create_style
    styleKey,     \* the key argument of get / set / remove
    styleArg,     \* the value argument of set, the default of get
    styleDict,    \* the mapping returned by the latest parse_style
    stylePrev,    \* the mapping returned by the parse_style before that
    styleOut,     \* the text returned by create_style / set / remove
    styleVal,     \* the value returned by get_style_value
    stylePc,      \* which step of the call sequence was taken last
    styleCycle,   \* how many serialize / parse cycles followed the first parse
    \* ---- import / export of an object graph ----
    heap,         \* the elements created so far (index = identity)
    file,         \* the File built through the API
    xml,          \* the <mxfile> element (exported, or given as input)
    imported,     \* the File under construction by convert_file
    exported,     \* the <mxfile> element written from the imported File
    id_to_object, \* XmlToPythonConverter.id_to_object
    sheet,        \* how many diagrams convert_file has converted
    origin,       \* "api": xml was exported from file; "input": xml was given
    pc,           \* which step was taken last
    \* ---- DrawioDecompressor: the call under way ----
    codecIn,      \* the text given to compress / decompress / is_compressed
    codecOut,     \* the result of compress
    codecBack,    \* the result of decompress
    codecFlag,    \* the result of is_compressed
    codecPc,      \* which step was taken last
    \* ---- DrawioParser: the call under way ----
    parseDoc,     \* the document given to parse_xml_string
    parseOut,     \* its result
    parsePc,      \* which step was taken last
    \* ---- write_file / save_page_as_svg / save_page_as_html: the call under way ----
    saveOp,       \* which of the three functions is called
    saveOld,      \* the target file as it was before the call
    saveDisk,     \* the target file
    saveContent,  \* the output string, once it is built
    saveRaised,   \* the statement whose exception was caught, "none" so far
    saveRet,      \* the value returned, "none" before the return
    savePc,       \* how far the call has come
    \* ---- DiagramRenderer: the page given and the call under way ----
    drawn,        \* the elements of the page, the k-th being element k
    show_grid,    \* the renderer's show_grid setting
    svg,          \* what render_page_to_svg has built
    renderPc      \* which step was taken last

styleVars == <<style, styleMap, styleKey, styleArg, styleDict, stylePrev,
               styleOut, styleVal, stylePc, styleCycle>>

graphVars == <<heap, file, xml, imported, exported, id_to_object, sheet, origin, pc>>

codecVars == <<codecIn, codecOut, codecBack, codecFlag, codecPc>>

parseVars == <<parseDoc, parseOut, parsePc>>

saveVars == <<saveOp, saveOld, saveDisk, saveContent, saveRaised, saveRet, savePc>>

renderVars == <<drawn, show_grid, svg, renderPc>>

vars == <<styleVars, graphVars, codecVars, parseVars, saveVars, renderVars>>

(***************************************************************************)
(* Text helpers (Python str methods).                                      *)
(***************************************************************************)
DecimalChars == {"0", "1", "2", "3", "4", "5", "6", "7", "8", "9"}

\* the characters str.isdigit() accepts: the decimals and other digit
\* characters such as U+00B2
DigitChars == DecimalChars \cup {"sup2"}

DigitValue(c) ==
    CASE c = "0" -> 0 [] c = "1" -> 1 [] c = "2" -> 2 [] c = "3" -> 3
      [] c = "4" -> 4 [] c = "5" -> 5 [] c = "6" -> 6 [] c = "7" -> 7
      [] c = "8" -> 8 [] c = "9" -> 9

DigitChar(n) ==
    CASE n = 0 -> "0" [] n = 1 -> "1" [] n = 2 -> "2" [] n = 3 -> "3"
      [] n = 4 -> "4" [] n = 5 -> "5" [] n = 6 -> "6" [] n = 7 -> "7"
      [] n = 8 -> "8" [] n = 9 -> "9"

Contains(s, c) == \E i \in 1..Len(s) : s[i] = c

Count(s, c) == Cardinality({i \in 1..Len(s) : s[i] = c})

\* index of the first occurrence of c in s, 0 when there is none
IndexOf(s, c) ==
    IF Contains(s, c)
    THEN CHOOSE i \in 1..Len(s) : s[i] = c /\ \A j \in 1..(i - 1) : s[j] # c
    ELSE 0

\* s.replace(c, '', 1)
ReplaceFirst(s, c) ==
    LET i == IndexOf(s, c) IN
    IF i = 0 THEN s ELSE SubSeq(s, 1, i - 1) \o SubSeq(s, i + 1, Len(s))

\* s.isdigit(): at least one character, every character a digit character
IsDigit(s) == Len(s) > 0 /\ \A i \in 1..Len(s) : s[i] \in DigitChars

AllDecimal(s) == \A i \in 1..Len(s) : s[i] \in DecimalChars

LowerChar(c) ==
    CASE c = "T" -> "t" [] c = "R" -> "r" [] c = "U" -> "u" [] c = "E" -> "e"
      [] c = "F" -> "f" [] c = "A" -> "a" [] c = "L" -> "l" [] c = "S" -> "s"
      [] OTHER -> c

\* s.lower()
Lower(s) == [i \in 1..Len(s) |-> LowerChar(s[i])]

RECURSIVE SplitFrom(_, _, _, _)
SplitFrom(s, c, i, cur) ==
    IF i > Len(s) THEN <<cur>>
    ELSE IF s[i] = c THEN <<cur>> \o SplitFrom(s, c, i + 1, <<>>)
    ELSE SplitFrom(s, c, i + 1, Append(cur, s[i]))

\* s.split(c)
Split(s, c) == SplitFrom(s, c, 1, <<>>)

RECURSIVE Join(_, _)
\* c.join(parts)
Join(parts, c) ==
    IF Len(parts) = 0 THEN <<>>
    ELSE IF Len(parts) = 1 THEN parts[1]
    ELSE parts[1] \o <<c>> \o Join(Tail(parts), c)

RECURSIVE DigitsToNat(_)
\* int(s) for a text of decimal characters
DigitsToNat(s) ==
    IF Len(s) = 0 THEN 0
    ELSE 10 * DigitsToNat(SubSeq(s, 1, Len(s) - 1)) + DigitValue(s[Len(s)])

RECURSIVE NatToDigits(_)
\* str(n) for an int n >= 0
NatToDigits(n) ==
    IF n < 10 THEN <<DigitChar(n)>>
    ELSE Append(NatToDigits(n \div 10), DigitChar(n % 10))

RECURSIVE StripZeros(_)
StripZeros(s) ==
    IF Len(s) > 0 /\ s[Len(s)] = "0" THEN StripZeros(SubSeq(s, 1, Len(s) - 1))
    ELSE s

(***************************************************************************)
(* Python values held in a style mapping.  One record shape for all:       *)
(*   int   n             [t |-> "int",   n |-> n, s |-> <<>>]              *)
(*   float n.s           [t |-> "float", n |-> n, s |-> fraction digits]   *)
(*   bool                [t |-> "bool",  n |-> 1 or 0, s |-> <<>>]         *)
(*   str                 [t |-> "str",   n |-> 0, s |-> the text]          *)
(*   None                [t |-> "none",  n |-> 0, s |-> <<>>]              *)
(* A float keeps its integer part and its fraction digits without          *)
(* trailing zeros, which identifies the float for the short decimal texts  *)
(* of the model (no exponent notation arises below 16 digits).             *)
(***************************************************************************)
PyInt(n) == [t |-> "int", n |-> n, s |-> <<>>]
PyFloat(n, frac) == [t |-> "float", n |-> n, s |-> frac]
PyBool(b) == [t |-> "bool", n |-> IF b THEN 1 ELSE 0, s |-> <<>>]
PyStr(s) == [t |-> "str", n |-> 0, s |-> s]
PyNone == [t |-> "none", n |-> 0, s |-> <<>>]

\* str(v), as the f-string and str() of create_style format it
PyToStr(v) ==
    CASE v.t = "int" -> NatToDigits(v.n)
      [] v.t = "float" -> NatToDigits(v.n) \o <<".">> \o (IF v.s = <<>> THEN <<"0">> ELSE v.s)
      [] v.t = "bool" -> IF v.n = 1 THEN <<"T", "r", "u", "e">> ELSE <<"F", "a", "l", "s", "e">>
      [] v.t = "str" -> v.s
      [] v.t = "none" -> <<"N", "o", "n", "e">>

\* the result of a call: a value, or the exception it raised
Ok(v) == [ok |-> TRUE, v |-> v]
Raised == [ok |-> FALSE, v |-> <<>>]

\* no StyleParser call is under way
StyleIdle ==
    /\ style = <<>>
    /\ styleMap = <<>>
    /\ styleKey = <<>>
    /\ styleArg = PyNone
    /\ styleDict = Ok(<<>>)
    /\ stylePrev = Ok(<<>>)
    /\ styleOut = Ok(<<>>)
    /\ styleVal = Ok(PyNone)
    /\ stylePc = "idle"
    /\ styleCycle = 0

\* no import / export is under way
GraphIdle ==
    /\ heap = <<>>
    /\ file = <<>>
    /\ xml = <<>>
    /\ imported = <<>>
    /\ exported = <<>>
    /\ id_to_object = <<>>
    /\ sheet = 0
    /\ origin = "idle"
    /\ pc = "idle"

\* no DrawioDecompressor call is under way
CodecIdle ==
    /\ codecIn = <<>>
    /\ codecOut = Ok(<<>>)
    /\ codecBack = Ok(<<>>)
    /\ codecFlag = FALSE
    /\ codecPc = "idle"

\* the target path names no file / names a file holding text
NoFile == [exists |-> FALSE, text |-> <<>>]

OnDisk(text) == [exists |-> TRUE, text |-> text]

\* no statement of the try body has raised
NoRaise == [at |-> "none", cls |-> "none"]

\* no page is given to a DiagramRenderer
RenderIdle ==
    /\ drawn = <<>>
    /\ show_grid = FALSE
    /\ svg = <<>>
    /\ renderPc = "idle"

\* no save call is under way
SaveIdle ==
    /\ saveOp = "idle"
    /\ saveOld = NoFile
    /\ saveDisk = NoFile
    /\ saveContent = Raised
    /\ saveRaised = NoRaise
    /\ saveRet = "none"
    /\ savePc = "idle"

\* no DrawioParser call is under way
ParseIdle ==
    /\ parseDoc = <<>>
    /\ parseOut = Ok(<<>>)
    /\ parsePc = "idle"

(***************************************************************************)
(* A mapping (Python dict): a sequence of entries in insertion order, no   *)
(* key twice.                                                              *)
(***************************************************************************)
BaseStyleKey == <<"b", "a", "s", "e", "S", "t", "y", "l", "e">>

DictHas(d, k) == \E i \in 1..Len(d) : d[i].k = k

DictPos(d, k) == CHOOSE i \in 1..Len(d) : d[i].k = k

\* d.get(k, default)
DictGet(d, k, default) == IF DictHas(d, k) THEN d[DictPos(d, k)].v ELSE default

\* d[k] = v : an existing key keeps its place
DictSet(d, k, v) ==
    IF DictHas(d, k)
    THEN [d EXCEPT ![DictPos(d, k)] = [k |-> k, v |-> v]]
    ELSE Append(d, [k |-> k, v |-> v])

\* del d[k]
DictDel(d, k) ==
    LET i == DictPos(d, k) IN SubSeq(d, 1, i - 1) \o SubSeq(d, i + 1, Len(d))

DictKeys(d) == {d[i].k : i \in 1..Len(d)}

\* d1 == d2 with the value types told apart
DictEq(d1, d2) == {d1[i] : i \in 1..Len(d1)} = {d2[i] : i \in 1..Len(d2)}

(***************************************************************************)
(* StyleParser (reader/style_parser.py).                                   *)
(***************************************************************************)
\* int(value): int() accepts decimal characters only
PyIntOf(value) ==
    IF AllDecimal(value) THEN Ok(PyInt(DigitsToNat(value))) ELSE Raised

\* float(value) for a text with one '.', digits elsewhere
PyFloatOf(value) ==
    LET dot == IndexOf(value, ".")
        whole == SubSeq(value, 1, dot - 1)
        frac == SubSeq(value, dot + 1, Len(value))
    IN  IF AllDecimal(whole) /\ AllDecimal(frac)
        THEN Ok(PyFloat(DigitsToNat(whole), StripZeros(frac)))
        ELSE Raised

\* the coercion chain of parse_style, lines 108-119: first match wins
CoerceValue(value) ==
    IF IsDigit(value) THEN PyIntOf(value)
    ELSE IF IsDigit(ReplaceFirst(value, ".")) /\ Count(value, ".") = 1 THEN PyFloatOf(value)
    ELSE IF Lower(value) = <<"t", "r", "u", "e">> THEN Ok(PyBool(TRUE))
    ELSE IF Lower(value) = <<"f", "a", "l", "s", "e">> THEN Ok(PyBool(FALSE))
    ELSE Ok(PyStr(value))

\* is part number i (1-based here, 0-based in the code) taken as the base style
IsBasePart(parts, i) == i = 1 /\ ~Contains(parts[i], "=")

RECURSIVE ParseParts(_, _, _)
\* the loop of parse_style over parts[i..]
ParseParts(parts, i, d) ==
    IF i > Len(parts) THEN Ok(d)
    ELSE LET part == parts[i] IN
         IF part = <<>> THEN ParseParts(parts, i + 1, d)
         ELSE IF IsBasePart(parts, i)
              THEN ParseParts(parts, i + 1, DictSet(d, BaseStyleKey, PyStr(part)))
         ELSE IF Contains(part, "=")
              THEN LET eq == IndexOf(part, "=")
                       key == SubSeq(part, 1, eq - 1)
                       c == CoerceValue(SubSeq(part, eq + 1, Len(part)))
                   IN  IF c.ok THEN ParseParts(parts, i + 1, DictSet(d, key, c.v))
                       ELSE Raised
         ELSE ParseParts(parts, i + 1, d)

\* StyleParser.parse_style
parse_style(style_str) ==
    IF style_str = <<>> THEN Ok(<<>>)
    ELSE ParseParts(Split(style_str, ";"), 1, <<>>)

\* the tokens create_style emits for the keys other than baseStyle
RECURSIVE KeyValueParts(_)
KeyValueParts(d) ==
    IF Len(d) = 0 THEN <<>>
    ELSE LET e == Head(d) IN
         (IF e.k # BaseStyleKey /\ e.v # PyNone
          THEN <<e.k \o <<"=">> \o PyToStr(e.v)>>
          ELSE <<>>) \o KeyValueParts(Tail(d))

\* the token create_style emits for the baseStyle key
BaseParts(d) ==
    IF DictHas(d, BaseStyleKey) THEN <<PyToStr(DictGet(d, BaseStyleKey, PyNone))>> ELSE <<>>

\* StyleParser.create_style
create_style(style_dict) ==
    IF Len(style_dict) = 0 THEN <<>>
    ELSE Join(BaseParts(style_dict) \o KeyValueParts(style_dict), ";")

\* StyleParser.get_style_value
get_style_value(style_str, key, default) ==
    LET p == parse_style(style_str) IN
    IF p.ok THEN Ok(DictGet(p.v, key, default)) ELSE Raised

\* StyleParser.set_style_value
set_style_value(style_str, key, value) ==
    LET p == parse_style(style_str) IN
    IF p.ok THEN Ok(create_style(DictSet(p.v, key, value))) ELSE Raised

\* StyleParser.remove_style_value
remove_style_value(style_str, key) ==
    LET p == parse_style(style_str) IN
    IF p.ok
    THEN Ok(create_style(IF DictHas(p.v, key) THEN DictDel(p.v, key) ELSE p.v))
    ELSE Raised

(***************************************************************************)
(* Inputs of the StyleParser calls.  A style string is a ';'-joined        *)
(* sequence of segments; the segments below cover the cases of the         *)
(* grammar: empty, bare token, int, float, bool, '=' inside a value,       *)
(* empty value, a key named baseStyle, a digit character int() rejects.    *)
(***************************************************************************)
MaxSegs == 2
MaxEntries == 2
StyleCycles == 2

KeyA == <<"a">>
KeyB == <<"b">>

SegPool ==
    { <<>>,
      <<"r">>,
      <<"a", "=", "0", "7">>,
      <<"b", "=", "1", ".", "5", "0">>,
      <<"b", "=", "T", "r", "u", "e">>,
      <<"a", "=", "x", "=", "y">>,
      <<"a", "=">>,
      BaseStyleKey \o <<"=">> \o BaseStyleKey \o <<"=", "a", "=", "1">>,
      <<"a", "=", "sup2">> }

\* "shape=rectangle;opacity=50;dashed=true;"
StyleExample ==
    <<"s", "h", "a", "p", "e", "=", "r", "e", "c", "t", "a", "n", "g", "l", "e", ";",
      "o", "p", "a", "c", "i", "t", "y", "=", "5", "0", ";",
      "d", "a", "s", "h", "e", "d", "=", "t", "r", "u", "e", ";">>

SegSeqs == UNION {[1..n -> SegPool] : n \in 0..MaxSegs}

StyleInputs == {Join(segs, ";") : segs \in SegSeqs} \cup {StyleExample}

EntryPool ==
    { [k |-> BaseStyleKey, v |-> PyStr(<<"r">>)],
      [k |-> BaseStyleKey, v |-> PyNone],
      [k |-> KeyA, v |-> PyInt(1)],
      [k |-> KeyA, v |-> PyNone],
      [k |-> KeyB, v |-> PyBool(TRUE)],
      [k |-> KeyB, v |-> PyFloat(1, <<"5">>)],
      [k |-> <<"c">>, v |-> PyStr(<<"x">>)] }

\* mappings: no key twice
MapInputs ==
    { m \in UNION {[1..n -> EntryPool] : n \in 0..MaxEntries} :
        \A i, j \in 1..Len(m) : i # j => m[i].k # m[j].k }

StyleKeys == {KeyA, KeyB, BaseStyleKey}

\* the non-null values given to set_style_value and as defaults to get
StyleValues == {PyBool(TRUE), PyStr(<<"x">>), PyInt(5), PyStr(<<"5">>)}

\* a call sequence starts from a style string or from a mapping
InitStyle ==
    /\ \/ style \in StyleInputs /\ styleMap = <<>> /\ stylePc = "start"
       \/ style = <<>> /\ styleMap \in MapInputs /\ stylePc = "startMap"
    /\ styleKey = <<>>
    /\ styleArg = PyNone
    /\ styleDict = Ok(<<>>)
    /\ stylePrev = Ok(<<>>)
    /\ styleOut = Ok(<<>>)
    /\ styleVal = Ok(PyNone)
    /\ styleCycle = 0
    /\ GraphIdle /\ CodecIdle /\ ParseIdle /\ SaveIdle /\ RenderIdle

\* parse_style(style)
StyleParse ==
    /\ stylePc = "start"
    /\ styleDict' = parse_style(style)
    /\ stylePc' = "parsed"
    /\ UNCHANGED <<style, styleMap, styleKey, styleArg, stylePrev, styleOut, styleVal, styleCycle>>
    /\ UNCHANGED <<graphVars, codecVars, parseVars, saveVars, renderVars>>

\* create_style(the mapping parsed last)
StyleCreate ==
    /\ stylePc = "parsed"
    /\ styleDict.ok
    /\ styleCycle < StyleCycles
    /\ styleOut' = Ok(create_style(styleDict.v))
    /\ stylePc' = "created"
    /\ UNCHANGED <<style, styleMap, styleKey, styleArg, styleDict, stylePrev, styleVal, styleCycle>>
    /\ UNCHANGED <<graphVars, codecVars, parseVars, saveVars, renderVars>>

\* parse_style(the text created last): one serialize / parse cycle is done
StyleReparse ==
    /\ stylePc = "created"
    /\ stylePrev' = styleDict
    /\ styleDict' = parse_style(styleOut.v)
    /\ styleCycle' = styleCycle + 1
    /\ stylePc' = "parsed"
    /\ UNCHANGED <<style, styleMap, styleKey, styleArg, styleOut, styleVal>>
    /\ UNCHANGED <<graphVars, codecVars, parseVars, saveVars, renderVars>>

\* create_style(styleMap)
StyleCreateMap ==
    /\ stylePc = "startMap"
    /\ styleOut' = Ok(create_style(styleMap))
    /\ stylePc' = "createdMap"
    /\ UNCHANGED <<style, styleMap, styleKey, styleArg, styleDict, stylePrev, styleVal, styleCycle>>
    /\ UNCHANGED <<graphVars, codecVars, parseVars, saveVars, renderVars>>

\* set_style_value(style, k, v)
StyleSet(k, v) ==
    /\ stylePc = "start"
    /\ styleKey' = k
    /\ styleArg' = v
    /\ styleOut' = set_style_value(style, k, v)
    /\ stylePc' = "set"
    /\ UNCHANGED <<style, styleMap, styleDict, stylePrev, styleVal, styleCycle>>
    /\ UNCHANGED <<graphVars, codecVars, parseVars, saveVars, renderVars>>

\* remove_style_value(style, k)
StyleRemove(k) ==
    /\ stylePc = "start"
    /\ styleKey' = k
    /\ styleOut' = remove_style_value(style, k)
    /\ stylePc' = "removed"
    /\ UNCHANGED <<style, styleMap, styleArg, styleDict, stylePrev, styleVal, styleCycle>>
    /\ UNCHANGED <<graphVars, codecVars, parseVars, saveVars, renderVars>>

\* get_style_value(text returned by set, k): the default is None
StyleGetAfterSet ==
    /\ stylePc = "set"
    /\ styleOut.ok
    /\ styleVal' = get_style_value(styleOut.v, styleKey, PyNone)
    /\ stylePc' = "gotSet"
    /\ UNCHANGED <<style, styleMap, styleKey, styleArg, styleDict, stylePrev, styleOut, styleCycle>>
    /\ UNCHANGED <<graphVars, codecVars, parseVars, saveVars, renderVars>>

\* get_style_value(text returned by remove, k, d)
StyleGetAfterRemove(d) ==
    /\ stylePc = "removed"
    /\ styleOut.ok
    /\ styleArg' = d
    /\ styleVal' = get_style_value(styleOut.v, styleKey, d)
    /\ stylePc' = "gotRemoved"
    /\ UNCHANGED <<style, styleMap, styleKey, styleDict, stylePrev, styleOut, styleCycle>>
    /\ UNCHANGED <<graphVars, codecVars, parseVars, saveVars, renderVars>>

NextStyle ==
    \/ StyleParse
    \/ StyleCreate
    \/ StyleReparse
    \/ StyleCreateMap
    \/ \E k \in StyleKeys, v \in StyleValues : StyleSet(k, v)
    \/ \E k \in StyleKeys : StyleRemove(k)
    \/ StyleGetAfterSet
    \/ \E d \in StyleValues : StyleGetAfterRemove(d)

SpecStyle == InitStyle /\ [][NextStyle]_vars

(***************************************************************************)
(* Properties of the StyleParser.                                          *)
(***************************************************************************)
StrTrue == <<"t", "r", "u", "e">>
StrFalse == <<"f", "a", "l", "s", "e">>

\* C3: style fixed point.  With m the mapping after one parse / serialize /
\* parse cycle, a further serialize / parse cycle returns a mapping with the
\* same keys, values and value types as m.
C3_StyleFixedPoint ==
    (stylePc = "parsed" /\ styleCycle = 2)
        => /\ stylePrev.ok
           /\ styleDict.ok
           /\ DictEq(styleDict.v, stylePrev.v)

\* the key and the value text of a key=value segment: split at the first '='
SegKey(part) == SubSeq(part, 1, IndexOf(part, "=") - 1)
SegValue(part) == SubSeq(part, IndexOf(part, "=") + 1, Len(part))

\* the type the claimed coercion order gives a value text
ClaimedType(value) ==
    IF IsDigit(value) THEN "int"
    ELSE IF Count(value, ".") = 1 /\ IsDigit(ReplaceFirst(value, ".")) THEN "float"
    ELSE IF Lower(value) \in {StrTrue, StrFalse} THEN "bool"
    ELSE "str"

StyleExampleDict ==
    << [k |-> <<"s", "h", "a", "p", "e">>,
        v |-> PyStr(<<"r", "e", "c", "t", "a", "n", "g", "l", "e">>)],
       [k |-> <<"o", "p", "a", "c", "i", "t", "y">>, v |-> PyInt(50)],
       [k |-> <<"d", "a", "s", "h", "e", "d">>, v |-> PyBool(TRUE)] >>

\* C4: value coercion is ordered, first match wins.  parse_style returns a
\* mapping in which every key=value segment (the last one of its key) has its
\* value as an int if the text is all digits, else a float if it has one '.'
\* and digits otherwise, else a bool if it is true/false in any case, else
\* the text itself; the segment is split at its first '='; the example
\* string parses to {shape: 'rectangle', opacity: 50, dashed: True}.
C4_CoercionOrder ==
    (stylePc = "parsed" /\ styleCycle = 0)
        => /\ styleDict.ok
           /\ LET parts == Split(style, ";") IN
              \A i \in 1..Len(parts) :
                 (/\ Contains(parts[i], "=")
                  /\ \A j \in (i + 1)..Len(parts) :
                        Contains(parts[j], "=") => SegKey(parts[j]) # SegKey(parts[i]))
                 => /\ DictHas(styleDict.v, SegKey(parts[i]))
                    /\ LET v == DictGet(styleDict.v, SegKey(parts[i]), PyNone)
                           text == SegValue(parts[i])
                       IN  /\ v.t = ClaimedType(text)
                           /\ v.t = "str" => v.s = text
                           /\ v.t = "bool" => (v.n = 1 <=> Lower(text) = StrTrue)
                           /\ (v.t = "int" /\ AllDecimal(text)) => v.n = DigitsToNat(text)
           /\ style = StyleExample => styleDict.v = StyleExampleDict

\* the first non-empty segment of a style string, <<>> when there is none
FirstNonEmpty(parts) ==
    IF \E i \in 1..Len(parts) : parts[i] # <<>>
    THEN parts[CHOOSE i \in 1..Len(parts) :
                  parts[i] # <<>> /\ \A j \in 1..(i - 1) : parts[j] = <<>>]
    ELSE <<>>

HasKeySegment(parts, k) ==
    \E i \in 1..Len(parts) : Contains(parts[i], "=") /\ SegKey(parts[i]) = k

\* C5: base style.  The first non-empty segment, when it has no '=', is the
\* base-style entry of the parsed mapping, also when empty segments precede
\* it; no other '='-less segment makes a base-style entry.  (Strings with an
\* explicit baseStyle=... segment are left aside.)
C5_BaseStyleFirstNonEmpty ==
    (stylePc = "parsed" /\ styleCycle = 0 /\ styleDict.ok
       /\ ~HasKeySegment(Split(style, ";"), BaseStyleKey))
        => LET first == FirstNonEmpty(Split(style, ";")) IN
           IF first # <<>> /\ ~Contains(first, "=")
           THEN /\ DictHas(styleDict.v, BaseStyleKey)
                /\ DictGet(styleDict.v, BaseStyleKey, PyNone) = PyStr(first)
           ELSE ~DictHas(styleDict.v, BaseStyleKey)

\* the tokens the claimed serialization emits: no token for a None value
RECURSIVE ClaimedTokens(_)
ClaimedTokens(d) ==
    IF Len(d) = 0 THEN <<>>
    ELSE LET e == Head(d) IN
         (IF e.k # BaseStyleKey /\ e.v.t # "none"
          THEN <<e.k \o <<"=">> \o PyToStr(e.v)>>
          ELSE <<>>) \o ClaimedTokens(Tail(d))

ClaimedBase(d) ==
    IF DictHas(d, BaseStyleKey) /\ DictGet(d, BaseStyleKey, PyNone).t # "none"
    THEN <<PyToStr(DictGet(d, BaseStyleKey, PyNone))>>
    ELSE <<>>

\* C6: create_style emits the base-style value first as a bare token, then
\* key=value for every other key whose value is not None, in mapping order,
\* joined by ';'; a key whose value is None gives no token; the empty
\* mapping gives the empty string.
C6_CreateStyleTokens ==
    stylePc = "createdMap"
        => /\ styleOut.ok
           /\ styleOut.v = Join(ClaimedBase(styleMap) \o ClaimedTokens(styleMap), ";")
           /\ styleMap = <<>> => styleOut.v = <<>>

\* the mapping a text parses to, <<>> when parse_style raises
ParsedOf(text) == LET p == parse_style(text) IN IF p.ok THEN p.v ELSE <<>>

SameOtherKeys(before, after, k) ==
    \A key \in (DictKeys(before) \cup DictKeys(after)) \ {k} :
        /\ DictHas(before, key)
        /\ DictHas(after, key)
        /\ DictGet(before, key, PyNone) = DictGet(after, key, PyNone)

\* C7: set and remove touch the named key only.  get(set(s, k, v), k) is v,
\* True being written k=true; get(remove(s, k), k, d) is d; every other key
\* parses to the same value before and after; removing an absent key leaves
\* the parsed mapping unchanged.
C7_SetRemoveFrame ==
    /\ stylePc = "gotSet" => styleVal = Ok(styleArg)
    /\ stylePc = "gotRemoved" => styleVal = Ok(styleArg)
    /\ stylePc \in {"set", "removed"}
         => /\ styleOut.ok
            /\ SameOtherKeys(ParsedOf(style), ParsedOf(styleOut.v), styleKey)
    /\ (stylePc = "set" /\ styleArg = PyBool(TRUE))
         => /\ styleOut.ok
            /\ \E i \in 1..Len(Split(styleOut.v, ";")) :
                  Split(styleOut.v, ";")[i] = styleKey \o <<"=">> \o StrTrue
    /\ (stylePc = "removed" /\ ~DictHas(ParsedOf(style), styleKey))
         => /\ styleOut.ok
            /\ DictEq(ParsedOf(styleOut.v), ParsedOf(style))

(***************************************************************************)
(* The object graph and the cell markup.                                   *)
(*                                                                         *)
(* Elements live in a heap (a sequence; the index is the object's          *)
(* identity, 0 is None).  File, Page, Object and Edge are classes outside  *)
(* the files modelled here; their fields are the ones reader and writer    *)
(* read and assign.  An element:                                           *)
(*   cls      "Object", "Edge" or "BasicObject"                            *)
(*   value    the value of an Object, the label of an Edge                 *)
(*   style    the style attribute set (a mapping)                          *)
(*   x, y, width, height      numbers (PyInt or PyFloat)                   *)
(*   parent, source, target   heap indices, 0 for None                     *)
(* A cell is an mxCell element: its attributes as text, AttrNone when the  *)
(* attribute is absent, and its mxGeometry child.                          *)
(***************************************************************************)
AttrNone == <<"None">>

T0 == <<"0">>
T1 == <<"1">>

NoGeometry ==
    [has |-> FALSE, x |-> AttrNone, y |-> AttrNone, width |-> AttrNone,
     height |-> AttrNone, relative |-> AttrNone, points |-> <<>>]

\* ET.SubElement(root, "mxCell", {"id": "0"}) and {"id": "1", "parent": "0"}
RootCell(id, parent) ==
    [id |-> id, parent |-> parent, vertex |-> AttrNone, edge |-> AttrNone,
     value |-> AttrNone, style |-> AttrNone, source |-> AttrNone,
     target |-> AttrNone, geometry |-> NoGeometry]

\* x == y for two Python numbers (an int equals the float of the same value)
NumEq(a, b) == a.n = b.n /\ a.s = b.s

\* float(text) for a decimal text with at most one '.'
float(text) ==
    IF IsDigit(text) /\ AllDecimal(text) THEN PyFloat(DigitsToNat(text), <<>>)
    ELSE PyFloatOf(text).v

\* obj.apply_style_string(style): the style attribute set is the parsed text
apply_style_string(text) == parse_style(text).v

\* obj.get_style_string(): the style attribute set as text
get_style_string(obj) == create_style(obj.style)

(***************************************************************************)
(* DrawioWriter (writer/__init__.py).                                      *)
(***************************************************************************)
\* the first id the writer hands out
FirstId == 2

RECURSIVE AssignIds(_, _, _)
\* the loop "for obj in page.objects: obj_to_id[obj] = str(next_id)"
AssignIds(objects, next_id, obj_to_id) ==
    IF Len(objects) = 0 THEN obj_to_id
    ELSE AssignIds(Tail(objects), next_id + 1,
                   DictSet(obj_to_id, Head(objects), NatToDigits(next_id)))

\* the id of a referenced element without the test "in obj_to_id": the
\* default for None only, the id of the default layer's parent for an
\* element the table lacks
resolve_id_unchecked(ref, obj_to_id, default) ==
    IF ref # 0 THEN DictGet(obj_to_id, ref, T0) ELSE default

\* the id of a referenced element, the default when it is None or not in the table
ResolveId(ref, obj_to_id, default) ==
    IF ref # 0 /\ DictHas(obj_to_id, ref) THEN DictGet(obj_to_id, ref, default)
    ELSE default

\* DrawioWriter._add_object_to_root: the mxCell of an Object
_add_object_to_root(h, obj, obj_to_id) ==
    LET o == h[obj]
        st == get_style_string(o)
    IN  [id |-> DictGet(obj_to_id, obj, AttrNone),
         parent |-> ResolveId(o.parent, obj_to_id, T1),
         vertex |-> T1,
         edge |-> AttrNone,
         value |-> o.value,
         style |-> IF st # <<>> THEN st ELSE AttrNone,
         source |-> AttrNone,
         target |-> AttrNone,
         geometry |-> [has |-> TRUE, x |-> PyToStr(o.x), y |-> PyToStr(o.y),
                       width |-> PyToStr(o.width), height |-> PyToStr(o.height),
                       relative |-> AttrNone, points |-> <<>>]]

\* the mxPoint children of <Array as="points">, one per routing point in
\* the order of edge.points, x and y as str() writes them; no Array for an
\* empty list
PointsArray(points) ==
    [i \in 1..Len(points) |-> [x |-> PyToStr(points[i][1]), y |-> PyToStr(points[i][2])]]

\* DrawioWriter._add_edge_to_root: the mxCell of an Edge
_add_edge_to_root(h, edge, obj_to_id) ==
    LET e == h[edge]
        st == get_style_string(e)
    IN  [id |-> DictGet(obj_to_id, edge, AttrNone),
         parent |-> ResolveId(e.parent, obj_to_id, T1),
         vertex |-> AttrNone,
         edge |-> T1,
         value |-> e.value,
         style |-> IF st # <<>> THEN st ELSE AttrNone,
         source |-> ResolveId(e.source, obj_to_id, AttrNone),
         target |-> ResolveId(e.target, obj_to_id, AttrNone),
         geometry |-> [has |-> TRUE, x |-> AttrNone, y |-> AttrNone,
                       width |-> AttrNone, height |-> AttrNone, relative |-> T1,
                       points |-> PointsArray(e.points)]]

\* isinstance(obj, Object) and not isinstance(obj, Edge)
IsObject(h, obj) == h[obj].cls = "Object"

\* isinstance(obj, Edge)
IsEdge(h, obj) == h[obj].cls = "Edge"

RECURSIVE EmitObjects(_, _, _)
\* the loop "Add all objects first"
EmitObjects(h, objects, obj_to_id) ==
    IF Len(objects) = 0 THEN <<>>
    ELSE (IF IsObject(h, Head(objects))
          THEN <<_add_object_to_root(h, Head(objects), obj_to_id)>> ELSE <<>>)
         \o EmitObjects(h, Tail(objects), obj_to_id)

RECURSIVE EmitEdges(_, _, _)
\* the loop "Then add all edges"
EmitEdges(h, objects, obj_to_id) ==
    IF Len(objects) = 0 THEN <<>>
    ELSE (IF IsEdge(h, Head(objects))
          THEN <<_add_edge_to_root(h, Head(objects), obj_to_id)>> ELSE <<>>)
         \o EmitEdges(h, Tail(objects), obj_to_id)

\* _add_objects_to_root with the ids handed out from 1, the id of the default layer
add_objects_ids_from_one(h, page) ==
    LET obj_to_id == AssignIds(page.objects, 1, <<>>) IN
    EmitObjects(h, page.objects, obj_to_id) \o EmitEdges(h, page.objects, obj_to_id)

\* _add_objects_to_root with the ids handed out in the order of emission:
\* to the shapes first, then to the connectors
add_objects_ids_in_emission_order(h, page) ==
    LET emitted == SelectSeq(page.objects, LAMBDA o : IsObject(h, o))
                       \o SelectSeq(page.objects, LAMBDA o : IsEdge(h, o))
        obj_to_id == AssignIds(emitted, FirstId, <<>>)
    IN  EmitObjects(h, page.objects, obj_to_id) \o EmitEdges(h, page.objects, obj_to_id)

\* _add_objects_to_root with one loop that writes shapes and connectors in
\* the order of the page
add_objects_in_sheet_order(h, page) ==
    LET obj_to_id == AssignIds(page.objects, FirstId, <<>>)
        written == SelectSeq(page.objects, LAMBDA o : IsObject(h, o) \/ IsEdge(h, o))
    IN  [k \in 1..Len(written) |->
            IF IsEdge(h, written[k]) THEN _add_edge_to_root(h, written[k], obj_to_id)
            ELSE _add_object_to_root(h, written[k], obj_to_id)]

\* DrawioWriter._add_objects_to_root: the cells appended to <root>
_add_objects_to_root(h, page) ==
    LET obj_to_id == AssignIds(page.objects, FirstId, <<>>) IN
    EmitObjects(h, page.objects, obj_to_id) \o EmitEdges(h, page.objects, obj_to_id)

\* DrawioWriter._convert_page_to_graph_model: <mxGraphModel><root> cells
_convert_page_to_graph_model(h, page) ==
    [hasRoot |-> TRUE,
     cells |-> <<RootCell(T0, AttrNone), RootCell(T1, T0)>> \o _add_objects_to_root(h, page)]

\* DrawioWriter._convert_page_to_diagram: the <diagram> element.  Its text is
\* kept as the graph model it serializes and whether the text is encoded
\* (the text itself is the subject of the codec and parser models).
_convert_page_to_diagram(h, page, compress_content) ==
    [id |-> <<"uuid">>, name |-> page.name,
     encoded |-> compress_content,
     content |-> _convert_page_to_graph_model(h, page)]

\* DrawioWriter.convert_file_to_xml: the <mxfile> element
convert_file_to_xml(h, f, compress_content) ==
    [tag |-> "mxfile",
     host |-> f.host,
     modified |-> <<"now">>,
     agent |-> <<"d", "r", "a", "w", "p", "y", "o">>,
     version |-> f.version,
     type |-> f.type,
     diagrams |-> [i \in 1..Len(f.pages) |->
                      _convert_page_to_diagram(h, f.pages[i], compress_content)]]

(***************************************************************************)
(* XmlToPythonConverter (reader/converter.py).                             *)
(* A conversion state st carries the heap, the page being filled and the   *)
(* converter's id_to_object table.                                         *)
(***************************************************************************)
DefaultWidth == 120
DefaultHeight == 60

\* cell.get(name, ''): the attribute, '' when absent
AttrOrEmpty(a) == IF a = AttrNone THEN <<>> ELSE a

\* Object(value=...), Edge(label=...), BasicObject(): a new element with the
\* default geometry, no style and no links
NewElement(cls, value) ==
    [cls |-> cls, value |-> value, style |-> <<>>,
     x |-> PyInt(0), y |-> PyInt(0),
     width |-> PyInt(DefaultWidth), height |-> PyInt(DefaultHeight),
     parent |-> 0, source |-> 0, target |-> 0, points |-> <<>>]

\* obj.page = page / page.add_object(obj): the element joins the heap and
\* the end of the page's element sequence
PageAdd(st, elem) ==
    [st EXCEPT !.h = Append(st.h, elem),
               !.page.objects = Append(st.page.objects, Len(st.h) + 1)]

\* the style of a cell applied to a new element, when the attribute is non-empty
WithStyle(elem, cell) ==
    IF AttrOrEmpty(cell.style) # <<>>
    THEN [elem EXCEPT !.style = apply_style_string(cell.style)]
    ELSE elem

\* float(geometry.get(name, 0)): the default 0 for every field
GeomValueZero(a, default) == IF a = AttrNone THEN PyFloat(0, <<>>) ELSE float(a)

\* float(geometry.get(name, default))
GeomValue(a, default) == IF a = AttrNone THEN PyFloat(default, <<>>) ELSE float(a)

\* XmlToPythonConverter._create_vertex_from_cell
_create_vertex_from_cell(cell) ==
    LET obj == WithStyle(NewElement("Object", AttrOrEmpty(cell.value)), cell)
        g == cell.geometry
    IN  IF g.has
        THEN [obj EXCEPT !.x = GeomValue(g.x, 0), !.y = GeomValue(g.y, 0),
                         !.width = GeomValue(g.width, DefaultWidth),
                         !.height = GeomValue(g.height, DefaultHeight)]
        ELSE obj

\* XmlToPythonConverter._create_edge_from_cell
_create_edge_from_cell(cell) ==
    WithStyle(NewElement("Edge", AttrOrEmpty(cell.value)), cell)

\* the reserved-id test with only the id of the document root
IsRootId(cell_id) == cell_id = T0

\* cell_id in ('0', '1')
IsReservedId(cell_id) == cell_id \in {T0, T1}

\* _create_object_from_cell with the vertex flag tested before the edge flag
create_object_vertex_first(st, cell) ==
    IF IsReservedId(cell.id) THEN st
    ELSE LET elem == IF cell.vertex = T1 THEN _create_vertex_from_cell(cell)
                     ELSE IF cell.edge = T1 THEN _create_edge_from_cell(cell)
                     ELSE NewElement("BasicObject", <<>>)
             st1 == PageAdd(st, elem)
         IN  [st1 EXCEPT !.tab = DictSet(st.tab, cell.id, Len(st1.h))]

\* _create_object_from_cell that leaves the table entry of an id it has
\* already recorded
create_object_keep_first(st, cell) ==
    IF IsReservedId(cell.id) THEN st
    ELSE LET elem == IF cell.edge = T1 THEN _create_edge_from_cell(cell)
                     ELSE IF cell.vertex = T1 THEN _create_vertex_from_cell(cell)
                     ELSE NewElement("BasicObject", <<>>)
             st1 == PageAdd(st, elem)
         IN  IF DictHas(st.tab, cell.id) THEN st1
             ELSE [st1 EXCEPT !.tab = DictSet(st.tab, cell.id, Len(st1.h))]

\* XmlToPythonConverter._create_object_from_cell (pass 1, one cell)
_create_object_from_cell(st, cell) ==
    IF IsReservedId(cell.id) THEN st
    ELSE LET elem == IF cell.edge = T1 THEN _create_edge_from_cell(cell)
                     ELSE IF cell.vertex = T1 THEN _create_vertex_from_cell(cell)
                     ELSE NewElement("BasicObject", <<>>)
             st1 == PageAdd(st, elem)
         IN  [st1 EXCEPT !.tab = DictSet(st.tab, cell.id, Len(st1.h))]

\* self.id_to_object.get(ref) for a non-empty attribute, 0 (None) otherwise
Lookup(tab, ref) ==
    IF ref # AttrNone /\ ref # <<>> THEN DictGet(tab, ref, 0) ELSE 0

\* _set_relationships that wires a cell only when each of its references
\* resolves
set_relationships_strict(st, cell) ==
    LET obj == DictGet(st.tab, cell.id, 0)
        given == {r \in {cell.parent, cell.source, cell.target} :
                     r # AttrNone /\ r # <<>>}
        parent_obj == Lookup(st.tab, cell.parent)
        h1 == IF parent_obj # 0
              THEN [st.h EXCEPT ![obj].parent = parent_obj] ELSE st.h
        h2 == IF h1[obj].cls = "Edge"
              THEN [h1 EXCEPT ![obj].source = Lookup(st.tab, cell.source),
                              ![obj].target = Lookup(st.tab, cell.target)]
              ELSE h1
    IN  IF IsReservedId(cell.id) \/ obj = 0 THEN st
        ELSE IF \E r \in given : ~DictHas(st.tab, r) THEN st
        ELSE [st EXCEPT !.h = h2]

\* XmlToPythonConverter._set_relationships (pass 2, one cell)
_set_relationships(st, cell) ==
    IF IsReservedId(cell.id) THEN st
    ELSE LET obj == DictGet(st.tab, cell.id, 0) IN
         IF obj = 0 THEN st
         ELSE LET parent_obj == IF IsReservedId(cell.parent) THEN 0
                                ELSE Lookup(st.tab, cell.parent)
                  source_obj == Lookup(st.tab, cell.source)
                  target_obj == Lookup(st.tab, cell.target)
                  h1 == IF parent_obj # 0
                        THEN [st.h EXCEPT ![obj].parent = parent_obj] ELSE st.h
                  h2 == IF h1[obj].cls = "Edge" /\ source_obj # 0
                        THEN [h1 EXCEPT ![obj].source = source_obj] ELSE h1
                  h3 == IF h2[obj].cls = "Edge" /\ target_obj # 0
                        THEN [h2 EXCEPT ![obj].target = target_obj] ELSE h2
              IN  [st EXCEPT !.h = h3]

RECURSIVE FirstPass(_, _)
\* "for cell in root.findall('mxCell'): self._create_object_from_cell(cell, page)"
FirstPass(st, cells) ==
    IF Len(cells) = 0 THEN st
    ELSE FirstPass(_create_object_from_cell(st, Head(cells)), Tail(cells))

RECURSIVE SecondPass(_, _)
\* "for cell in root.findall('mxCell'): self._set_relationships(cell)"
SecondPass(st, cells) ==
    IF Len(cells) = 0 THEN st
    ELSE SecondPass(_set_relationships(st, Head(cells)), Tail(cells))

RECURSIVE OnePass(_, _)
\* a single loop that creates the element of a cell and wires it at once
OnePass(st, cells) ==
    IF Len(cells) = 0 THEN st
    ELSE OnePass(_set_relationships(_create_object_from_cell(st, Head(cells)),
                                    Head(cells)),
                 Tail(cells))

\* convert_diagram with the single loop in place of the two passes
convert_diagram_one_pass(h, diagram_data) ==
    LET st0 == [h |-> h, page |-> [name |-> diagram_data.name, objects |-> <<>>],
                tab |-> <<>>]
    IN  IF ~diagram_data.content.hasRoot THEN st0
        ELSE OnePass(st0, diagram_data.content.cells)

\* convert_diagram that goes on with the table as the sheet before left it
convert_diagram_keep_table(h, diagram_data) ==
    LET st0 == [h |-> h, page |-> [name |-> diagram_data.name, objects |-> <<>>],
                tab |-> id_to_object]
    IN  IF ~diagram_data.content.hasRoot THEN st0
        ELSE SecondPass(FirstPass(st0, diagram_data.content.cells),
                        diagram_data.content.cells)

\* XmlToPythonConverter.convert_diagram: the table is emptied, then the two passes
convert_diagram(h, diagram_data) ==
    LET st0 == [h |-> h, page |-> [name |-> diagram_data.name, objects |-> <<>>],
                tab |-> <<>>]
    IN  IF ~diagram_data.content.hasRoot THEN st0
        ELSE SecondPass(FirstPass(st0, diagram_data.content.cells),
                        diagram_data.content.cells)

\* DrawioParser.parse_xml_string, file_info: root.get(name, '')
FileInfo(root) ==
    [host |-> AttrOrEmpty(root.host), modified |-> AttrOrEmpty(root.modified),
     agent |-> AttrOrEmpty(root.agent), version |-> AttrOrEmpty(root.version),
     type |-> AttrOrEmpty(root.type)]

\* DrawioParser.parse_xml_string, one diagram: id, name and the parsed content
DiagramData(d) ==
    [id |-> AttrOrEmpty(d.id), name |-> AttrOrEmpty(d.name), content |-> d.content]

\* file_info.get(key, default): the default for a key the mapping lacks
InfoGet(file_info, key, default) ==
    IF key \in DOMAIN file_info THEN file_info[key] ELSE default

DefaultHost == <<"D", "r", "a", "w", "p", "y", "o">>
DefaultVersion == <<"2", "1", ".", "6", ".", "5">>
DefaultType == <<"d", "e", "v", "i", "c", "e">>

\* XmlToPythonConverter.convert_file, before the loop: the new File
NewFile(file_info) ==
    [host |-> InfoGet(file_info, "host", DefaultHost),
     version |-> InfoGet(file_info, "version", DefaultVersion),
     type |-> InfoGet(file_info, "type", DefaultType), pages |-> <<>>]

(***************************************************************************)
(* Export and import of an object graph.                                   *)
(*                                                                         *)
(* A File is either built through the API (File(), add_page, Object(),     *)
(* Edge(), add_object) and exported, or an <mxfile> element is given as    *)
(* input; read_xml_string then imports the element sheet by sheet.         *)
(***************************************************************************)
MaxObjs == 3
MaxCells == 3

\* the names of the pages added through the API, in the order of addition
PageNames == << <<"P">>, <<"Q">> >>

\* File(): the metadata an API-built file carries
ApiFile ==
    [host |-> <<"H">>, version |-> <<"V">>, type |-> <<"T">>, pages |-> <<>>]

\* an Object created through the API and never added to a page
OffPage == NewElement("Object", <<"o", "f", "f">>)

\* Object(value=...) with position, size and style set through the API
ShapeProtos ==
    { [NewElement("Object", <<"A">>) EXCEPT
           !.style = apply_style_string(<<"a", "=", "0", "7">>),
           !.x = PyInt(10), !.y = PyInt(20)],
      [NewElement("Object", <<>>) EXCEPT
           !.x = PyFloat(10, <<"5">>), !.width = PyInt(30), !.height = PyInt(40)] }

\* Edge(label=...) with a style and two routing points set through the API
EdgeProto ==
    [NewElement("Edge", <<"L">>) EXCEPT
         !.style = apply_style_string(<<"r", ";", "b", "=", "T", "r", "u", "e">>),
         !.points = << <<PyInt(10), PyInt(20)>>, <<PyInt(30), PyInt(5)>> >>]

\* a link given at construction: 0 is None, r > 0 the r-th element of the
\* page, -1 the element that is on no page
ShapeParents == {0, 1}

EdgeLinks ==
    { [source |-> 0, target |-> 0, parent |-> 0],
      [source |-> 1, target |-> 2, parent |-> 0],
      [source |-> 2, target |-> 1, parent |-> 1],
      [source |-> 1, target |-> -1, parent |-> -1],
      [source |-> -1, target |-> 1, parent |-> 0] }

\* the link r can be given on the page: the element it names exists
LinkOk(page, r) == r <= Len(page.objects)

\* the element the link r names
LinkTarget(page, r) ==
    IF r = 0 THEN 0 ELSE IF r = -1 THEN 1 ELSE page.objects[r]

\* the mxCell elements given as input
Cell(id, parent, vertex, edge, value, style_attr, source, target, geometry) ==
    [id |-> id, parent |-> parent, vertex |-> vertex, edge |-> edge,
     value |-> value, style |-> style_attr, source |-> source, target |-> target,
     geometry |-> geometry]

Geometry(x, y, width, height, relative) ==
    [has |-> TRUE, x |-> x, y |-> y, width |-> width, height |-> height,
     relative |-> relative, points |-> <<>>]

CellPool ==
    { RootCell(T0, AttrNone),
      \* a cell with the reserved id '1' that carries every other attribute
      Cell(T1, <<"2">>, T1, T1, <<"R">>, <<"a", "=", "1">>, <<"2">>, <<"2">>,
           Geometry(<<"1">>, <<"2">>, <<"3">>, <<"4">>, AttrNone)),
      \* shapes
      Cell(<<"2">>, T1, T1, AttrNone, <<"A">>, <<"a", "=", "0", "7">>, AttrNone, AttrNone,
           Geometry(<<"1", "0">>, <<"2", "0">>, <<"3", "0">>, <<"4", "0">>, AttrNone)),
      Cell(<<"3">>, <<"2">>, T1, AttrNone, AttrNone, AttrNone, AttrNone, AttrNone,
           Geometry(<<"1", ".", "5">>, AttrNone, AttrNone, AttrNone, AttrNone)),
      Cell(<<"8">>, T1, T1, AttrNone, <<"B">>, AttrNone, AttrNone, AttrNone,
           NoGeometry),
      \* connectors
      Cell(<<"4">>, T1, AttrNone, T1, <<"L">>, <<"r">>, <<"2">>, <<"3">>,
           [Geometry(AttrNone, AttrNone, AttrNone, AttrNone, T1) EXCEPT
                !.points = <<[x |-> <<"7">>, y |-> <<"9">>]>>]),
      Cell(<<"2">>, <<"4">>, AttrNone, T1, AttrNone, AttrNone, <<"3">>, <<"9">>,
           NoGeometry),
      \* neither vertex nor edge
      Cell(<<"5">>, <<"2">>, AttrNone, AttrNone, <<"v">>, <<"a", "=", "1">>, AttrNone,
           AttrNone, NoGeometry),
      \* both vertex and edge, linked to a reserved id and to itself
      Cell(<<"6">>, <<"6">>, T1, T1, AttrNone, AttrNone, T1, <<"5">>, NoGeometry) }

CellSeqs == UNION {[1..n -> CellPool] : n \in 0..MaxCells}

\* a connector cell that names the ids "2" and "3"
StrayConnector ==
    Cell(<<"7">>, T1, AttrNone, T1, AttrNone, AttrNone, <<"2">>, <<"3">>, NoGeometry)

\* the sheets that may follow the first: one without <root>, one whose
\* connector names an id used on the first sheet
SecondSheets ==
    { <<>>,
      << [hasRoot |-> FALSE, cells |-> <<>>] >>,
      << [hasRoot |-> TRUE,
          cells |-> <<StrayConnector>>] >> }

\* the <mxfile> element given as input: with or without its optional attributes
InputDoc(cells, more, attrs) ==
    LET a(text) == IF attrs THEN text ELSE AttrNone
        contents == << [hasRoot |-> TRUE, cells |-> cells] >> \o more
    IN  [tag |-> "mxfile", host |-> a(<<"h">>), modified |-> a(<<"m">>),
         agent |-> a(<<"g">>), version |-> a(<<"v">>), type |-> a(<<"t">>),
         diagrams |-> [i \in 1..Len(contents) |->
                          [id |-> a(<<"i">>), name |-> a(<<"n">>),
                           encoded |-> FALSE, content |-> contents[i]]]]

InputDocs ==
    {InputDoc(cells, more, attrs) :
        cells \in CellSeqs, more \in SecondSheets, attrs \in BOOLEAN}

\* the document of a second call on the same converter: a sheet without
\* <root>, then a sheet whose connector names ids of the earlier document
AgainDoc ==
    LET contents == << [hasRoot |-> FALSE, cells |-> <<>>],
                       [hasRoot |-> TRUE, cells |-> <<StrayConnector>>] >>
    IN  [InputDoc(<<>>, <<>>, TRUE) EXCEPT
            !.diagrams = [i \in 1..2 |-> [id |-> <<"j">>, name |-> <<"k">>,
                                          encoded |-> FALSE, content |-> contents[i]]]]

\* a file_info mapping built by the caller, without host, version and type
BareInfo == [modified |-> <<"m">>]

\* no StyleParser, DrawioDecompressor or DrawioParser call is under way
OthersIdle == StyleIdle /\ CodecIdle /\ ParseIdle /\ SaveIdle /\ RenderIdle

InitGraph ==
    /\ \/ /\ origin = "api"
          /\ pc = "build"
          /\ heap = <<OffPage>>
          /\ file = ApiFile
          /\ xml = <<>>
       \/ /\ origin = "input"
          /\ pc = "input"
          /\ heap = <<>>
          /\ file = <<>>
          /\ xml \in InputDocs
    /\ imported = <<>>
    /\ exported = <<>>
    /\ id_to_object = <<>>
    /\ sheet = 0
    /\ OthersIdle

\* the page elements are added to: the page added last
LastPage == file.pages[Len(file.pages)]

\* page.add_object(elem) for the page added last
AddToLastPage(elem) ==
    /\ heap' = Append(heap, elem)
    /\ file' = [file EXCEPT !.pages[Len(file.pages)].objects =
                                Append(@, Len(heap) + 1)]

\* file.add_page(Page(name))
AddPage ==
    /\ pc = "build"
    /\ Len(file.pages) < Len(PageNames)
    /\ file' = [file EXCEPT !.pages =
                   Append(@, [name |-> PageNames[Len(file.pages) + 1], objects |-> <<>>])]
    /\ UNCHANGED <<heap, xml, imported, exported, id_to_object, sheet, origin, pc>>
    /\ UNCHANGED <<styleVars, codecVars, parseVars, saveVars, renderVars>>

\* page.add_object(Object(...)), the parent given by its place on the page
AddObject(proto, parent) ==
    /\ pc = "build"
    /\ Len(file.pages) > 0
    /\ Len(heap) <= MaxObjs
    /\ LinkOk(LastPage, parent)
    /\ AddToLastPage([proto EXCEPT !.parent = LinkTarget(LastPage, parent)])
    /\ UNCHANGED <<xml, imported, exported, id_to_object, sheet, origin, pc>>
    /\ UNCHANGED <<styleVars, codecVars, parseVars, saveVars, renderVars>>

\* page.add_object(Edge(source=..., target=...))
AddEdge(link) ==
    /\ pc = "build"
    /\ Len(file.pages) > 0
    /\ Len(heap) <= MaxObjs
    /\ LinkOk(LastPage, link.source)
    /\ LinkOk(LastPage, link.target)
    /\ LinkOk(LastPage, link.parent)
    /\ AddToLastPage([EdgeProto EXCEPT !.source = LinkTarget(LastPage, link.source),
                                       !.target = LinkTarget(LastPage, link.target),
                                       !.parent = LinkTarget(LastPage, link.parent)])
    /\ UNCHANGED <<xml, imported, exported, id_to_object, sheet, origin, pc>>
    /\ UNCHANGED <<styleVars, codecVars, parseVars, saveVars, renderVars>>

\* DrawioWriter(compress_content).convert_file_to_xml(file)
Export(compress_content) ==
    /\ pc = "build"
    /\ xml' = convert_file_to_xml(heap, file, compress_content)
    /\ pc' = "exported"
    /\ UNCHANGED <<heap, file, imported, exported, id_to_object, sheet, origin>>
    /\ UNCHANGED <<styleVars, codecVars, parseVars, saveVars, renderVars>>

\* DrawioReader.read_xml_string up to the loop of convert_file: the markup
\* is parsed and the new File takes the metadata
ReadStart ==
    /\ pc \in {"exported", "input"}
    /\ imported' = NewFile(FileInfo(xml))
    /\ sheet' = 0
    /\ pc' = IF Len(xml.diagrams) = 0 THEN "done" ELSE "converting"
    /\ UNCHANGED <<heap, file, xml, exported, id_to_object, origin>>
    /\ UNCHANGED <<styleVars, codecVars, parseVars, saveVars, renderVars>>

\* one round of the loop of convert_file: convert_diagram, then file.add_page
ConvertDiagram ==
    /\ pc = "converting"
    /\ sheet < Len(xml.diagrams)
    /\ LET st == convert_diagram(heap, DiagramData(xml.diagrams[sheet + 1])) IN
          /\ heap' = st.h
          /\ id_to_object' = st.tab
          /\ imported' = [imported EXCEPT !.pages = Append(@, st.page)]
    /\ sheet' = sheet + 1
    /\ pc' = IF sheet + 1 = Len(xml.diagrams) THEN "done" ELSE "converting"
    /\ UNCHANGED <<file, xml, exported, origin>>
    /\ UNCHANGED <<styleVars, codecVars, parseVars, saveVars, renderVars>>

\* converter.convert_file(parsed_data) once more on the converter that has
\* converted the input document (as DrawioReader.parse_and_convert does on
\* a reused reader), with the parser's file_info or one built by the caller
ConvertFileAgain(parsed) ==
    /\ pc = "done"
    /\ origin = "input"
    /\ xml' = AgainDoc
    /\ imported' = NewFile(IF parsed THEN FileInfo(AgainDoc) ELSE BareInfo)
    /\ sheet' = 0
    /\ origin' = "again"
    /\ pc' = "converting"
    /\ UNCHANGED <<heap, file, exported, id_to_object>>
    /\ UNCHANGED <<styleVars, codecVars, parseVars, saveVars, renderVars>>

\* DrawioWriter(compress_content).convert_file_to_xml(file) for the File
\* that read_xml_string has returned
ExportImported(compress_content) ==
    /\ pc = "done"
    /\ origin \in {"api", "input"}
    /\ exported' = convert_file_to_xml(heap, imported, compress_content)
    /\ pc' = "reexported"
    /\ UNCHANGED <<heap, file, xml, imported, id_to_object, sheet, origin>>
    /\ UNCHANGED <<styleVars, codecVars, parseVars, saveVars, renderVars>>

Next ==
    \/ AddPage
    \/ \E proto \in ShapeProtos, parent \in ShapeParents : AddObject(proto, parent)
    \/ \E link \in EdgeLinks : AddEdge(link)
    \/ \E compress_content \in BOOLEAN : Export(compress_content)
    \/ ReadStart
    \/ ConvertDiagram
    \/ \E parsed \in BOOLEAN : ConvertFileAgain(parsed)
    \/ \E compress_content \in BOOLEAN : ExportImported(compress_content)

Spec == InitGraph /\ [][Next]_vars

(***************************************************************************)
(* Claims about import and export.                                         *)
(***************************************************************************)
\* the sheet converted last, its cells, and the page made from it
SheetDone == pc \in {"converting", "done"} /\ sheet >= 1
LastDiagram == DiagramData(xml.diagrams[sheet])
LastCells == IF LastDiagram.content.hasRoot THEN LastDiagram.content.cells ELSE <<>>
LastImported == imported.pages[sheet]

\* the heap as it was before the sheet converted last was converted
HeapBefore == SubSeq(heap, 1, Len(heap) - Len(LastImported.objects))

\* the cells whose id is not reserved
OtherCells(cells) == SelectSeq(cells, LAMBDA c : c.id \notin {T0, T1})

\* C10: after a sheet is converted, the page holds exactly one element per
\* cell whose id is neither '0' nor '1' (so none for a reserved cell), the
\* id_to_object table has no entry for '0' or '1', and the heap, the page and
\* the table are the ones the conversion yields for the same sheet with the
\* reserved cells taken out: a reserved cell is never wired and changes
\* nothing, whatever its vertex, edge, parent, source and target attributes.
C10_ReservedIdExclusion ==
    SheetDone =>
        LET kept == OtherCells(LastCells)
            without == convert_diagram(HeapBefore,
                           [LastDiagram EXCEPT !.content.cells = kept])
        IN  /\ Len(LastImported.objects) = Len(kept)
            /\ Len(heap) = Len(HeapBefore) + Len(kept)
            /\ ~DictHas(id_to_object, T0)
            /\ ~DictHas(id_to_object, T1)
            /\ heap = without.h
            /\ LastImported = without.page
            /\ id_to_object = without.tab

\* a converted sheet that holds a cell with id '1' flagged vertex and edge,
\* with parent, source and target set, and another cell that names id '1'
C10_Witness ==
    /\ SheetDone
    /\ \E i \in 1..Len(LastCells) :
          /\ LastCells[i].id = T1
          /\ LastCells[i].vertex = T1 /\ LastCells[i].edge = T1
          /\ LastCells[i].parent # AttrNone /\ LastCells[i].source # AttrNone
    /\ \E i \in 1..Len(LastCells) :
          LastCells[i].id \notin {T0, T1} /\ LastCells[i].source = T1
    /\ Len(LastImported.objects) > 0

\* the place of an element on a page, 0 when it is None or not on the page
PosIn(objects, ref) ==
    IF \E i \in 1..Len(objects) : objects[i] = ref
    THEN CHOOSE i \in 1..Len(objects) :
             objects[i] = ref /\ \A j \in 1..(i - 1) : objects[j] # ref
    ELSE 0

\* the canonical style of an element: its style serialized and parsed again
CanonicalStyle(elem) == parse_style(create_style(elem.style)).v

\* the elements of two pages agree place by place: same kind, same canonical
\* style, same position and size for shapes, parent (and for connectors
\* source and target) at the same place of the page or on neither page
SameElements(before, after) ==
    /\ Len(before) = Len(after)
    /\ \A i \in 1..Len(before) :
          LET a == heap[before[i]]
              b == heap[after[i]]
          IN  /\ a.cls = b.cls
              /\ DictEq(CanonicalStyle(a), b.style)
              /\ a.cls = "Object" =>
                    /\ NumEq(a.x, b.x) /\ NumEq(a.y, b.y)
                    /\ NumEq(a.width, b.width) /\ NumEq(a.height, b.height)
              /\ PosIn(before, a.parent) = PosIn(after, b.parent)
              /\ a.cls = "Edge" =>
                    /\ PosIn(before, a.source) = PosIn(after, b.source)
                    /\ PosIn(before, a.target) = PosIn(after, b.target)

\* the elements of a page, shapes first and connectors after them, each group
\* in page order
ShapesFirst(objects) ==
    SelectSeq(objects, LAMBDA o : heap[o].cls # "Edge")
        \o SelectSeq(objects, LAMBDA o : heap[o].cls = "Edge")

\* an API-built file was exported and imported again
RoundTripDone == origin = "api" /\ pc = "done"

\* C1 (as stated): after export and import of an API-built file the pages
\* are as many and named the same, and the elements of every page agree
\* with the imported ones place by place in the page's element sequence.
C1_RoundTripByPlace ==
    RoundTripDone =>
        /\ Len(imported.pages) = Len(file.pages)
        /\ \A p \in 1..Len(file.pages) :
              /\ imported.pages[p].name = file.pages[p].name
              /\ SameElements(file.pages[p].objects, imported.pages[p].objects)

\* C1 (amended): after export and import of an API-built file the pages are
\* as many and named the same, and the elements of every page, taken shapes
\* first and connectors after them, agree with the imported ones place by
\* place; a link to an element that is not on the page comes back as None.
C1_RoundTripShapesFirst ==
    RoundTripDone =>
        /\ Len(imported.pages) = Len(file.pages)
        /\ \A p \in 1..Len(file.pages) :
              /\ imported.pages[p].name = file.pages[p].name
              /\ Len(imported.pages[p].objects) = Len(file.pages[p].objects)
              /\ SameElements(ShapesFirst(file.pages[p].objects),
                              imported.pages[p].objects)

\* a round trip of a page on which a linked connector precedes a shape
C1_Witness ==
    /\ RoundTripDone
    /\ \E p \in 1..Len(file.pages) :
          \E i, j \in 1..Len(file.pages[p].objects) :
             /\ i < j
             /\ heap[file.pages[p].objects[i]].cls = "Edge"
             /\ heap[file.pages[p].objects[i]].source # 0
             /\ heap[file.pages[p].objects[j]].cls = "Object"
             /\ Len(imported.pages[p].objects) = Len(file.pages[p].objects)

(***************************************************************************)
(* Claims about the wiring of pass 2.  The k-th cell of a sheet whose id   *)
(* is not reserved made the k-th element of the page.                      *)
(***************************************************************************)
Kept == OtherCells(LastCells)

\* the element made from the k-th kept cell
ElemOf(k) == heap[LastImported.objects[k]]

\* the id of the k-th kept cell is the id of no other cell of the sheet
OwnId(k) == \A j \in 1..Len(Kept) : Kept[j].id = Kept[k].id => j = k

\* the attribute is given and names no cell that pass 1 made an element of
Dangling(ref) ==
    /\ ref # AttrNone /\ ref # <<>>
    /\ \A j \in 1..Len(Kept) : Kept[j].id # ref

\* the attribute names a cell that pass 1 made an element of
Names(ref) == \E j \in 1..Len(Kept) : Kept[j].id = ref

\* the field holds an element of the page made from a cell with this id
WiredTo(field, ref) ==
    /\ PosIn(LastImported.objects, field) # 0
    /\ Kept[PosIn(LastImported.objects, field)].id = ref

UniqueIds(cells) ==
    \A i, j \in 1..Len(cells) :
        (cells[i].id = cells[j].id /\ cells[i].id \notin {T0, T1}) => i = j

\* the wiring a conversion st of the cells has made, told by cell ids: for
\* every cell that made an element, its id and the ids of the cells that
\* made its parent, source and target (AttrNone for None)
Wiring(st, cells) ==
    LET kept == OtherCells(cells)
        IdOf(obj) == IF PosIn(st.page.objects, obj) = 0 THEN AttrNone
                     ELSE kept[PosIn(st.page.objects, obj)].id
    IN  { [id |-> kept[k].id,
           cls |-> st.h[st.page.objects[k]].cls,
           parent |-> IdOf(st.h[st.page.objects[k]].parent),
           source |-> IdOf(st.h[st.page.objects[k]].source),
           target |-> IdOf(st.h[st.page.objects[k]].target)] : k \in 1..Len(kept) }

\* the conversion of the sheet converted last with its cells in another order
Reordered(cells) ==
    convert_diagram(HeapBefore, [LastDiagram EXCEPT !.content.cells = cells])

\* the cells with the first two exchanged, and with the first moved to the end
SwapFirst(cells) ==
    IF Len(cells) < 2 THEN cells
    ELSE <<cells[2], cells[1]>> \o SubSeq(cells, 3, Len(cells))
Rotate(cells) == IF Len(cells) = 0 THEN cells ELSE Append(Tail(cells), Head(cells))

IsWhole(v, n) == v.n = n /\ v.s = <<>>

\* the number is the one the attribute gives, or the whole number n when
\* the attribute is absent
GivenOr(v, a, n) == IF a = AttrNone THEN IsWhole(v, n) ELSE NumEq(v, float(a))

\* C13: after a sheet is converted, the element made from a cell flagged
\* vertex (and not edge) is a shape; without an mxGeometry child it is at
\* (0, 0) with width 120 and height 60; with one, each of x, y, width and
\* height is the number the attribute gives, and 0, 0, 120, 60 for an
\* attribute the mxGeometry lacks.
C13_GeometryDefault ==
    SheetDone =>
        \A k \in 1..Len(Kept) :
            LET c == Kept[k]
                e == ElemOf(k)
                g == c.geometry
            IN  (c.vertex = T1 /\ c.edge # T1) =>
                  /\ e.cls = "Object"
                  /\ ~g.has =>
                        /\ IsWhole(e.x, 0) /\ IsWhole(e.y, 0)
                        /\ IsWhole(e.width, 120) /\ IsWhole(e.height, 60)
                  /\ g.has =>
                        /\ GivenOr(e.x, g.x, 0) /\ GivenOr(e.y, g.y, 0)
                        /\ GivenOr(e.width, g.width, 120)
                        /\ GivenOr(e.height, g.height, 60)

\* a converted sheet with a vertex cell without mxGeometry and a vertex cell
\* whose mxGeometry gives x = 1.5 and neither y, width nor height
C13_Witness ==
    /\ SheetDone
    /\ \E k \in 1..Len(Kept) :
          /\ Kept[k].vertex = T1 /\ Kept[k].edge # T1
          /\ ~Kept[k].geometry.has
          /\ ElemOf(k).width = PyInt(120)
    /\ \E k \in 1..Len(Kept) :
          /\ Kept[k].vertex = T1 /\ Kept[k].edge # T1
          /\ Kept[k].geometry.has
          /\ Kept[k].geometry.x # AttrNone /\ Kept[k].geometry.width = AttrNone
          /\ ElemOf(k).x = PyFloat(1, <<"5">>)
          /\ ElemOf(k).height = PyFloat(60, <<>>)

\* the cells of the s-th sheet of an <mxfile> element
CellsOf(doc, s) ==
    IF doc.diagrams[s].content.hasRoot THEN doc.diagrams[s].content.cells ELSE <<>>

\* the parsed field, or the fallback when the parsed field is empty
OrFallback(field, fallback) == IF field = <<>> THEN fallback ELSE field

\* C20: once convert_file has made the File for a parsed input document,
\* its host, version and type are the parsed fields, and 'Drawpyo',
\* '21.6.5' and 'device' for a parsed field that is empty (the attribute
\* absent in the document).
C20_MetadataFallback ==
    (origin = "input" /\ pc \in {"converting", "done", "reexported"}) =>
        /\ imported.host = OrFallback(FileInfo(xml).host, DefaultHost)
        /\ imported.version = OrFallback(FileInfo(xml).version, DefaultVersion)
        /\ imported.type = OrFallback(FileInfo(xml).type, DefaultType)

\* the elements of a sequence
Range(seq) == {seq[i] : i \in 1..Len(seq)}

\* C15: every step that converts a sheet (of the first call or of a later
\* call on the same converter) leaves the elements made before as they
\* were, makes the elements of the new page only, sets every parent, source
\* and target of a new element to None or to an element of the same page,
\* and leaves in the id-to-object table only ids of cells of this sheet,
\* each with an element of this page: nothing of an earlier sheet or call
\* is left in the table, which is empty after a sheet without <root>.
C15_NoCrossReferences ==
    [][sheet' = sheet + 1 =>
          LET made == imported'.pages[sheet'].objects
              cells == CellsOf(xml', sheet')
          IN  /\ SubSeq(heap', 1, Len(heap)) = heap
              /\ \A i \in 1..Len(made) : made[i] > Len(heap)
              /\ \A i \in 1..Len(made) :
                    /\ heap'[made[i]].parent \in {0} \cup Range(made)
                    /\ heap'[made[i]].source \in {0} \cup Range(made)
                    /\ heap'[made[i]].target \in {0} \cup Range(made)
              /\ \A i \in 1..Len(id_to_object') :
                    /\ id_to_object'[i].v \in Range(made)
                    /\ \E j \in 1..Len(cells) : cells[j].id = id_to_object'[i].k
              /\ ~xml'.diagrams[sheet'].content.hasRoot => id_to_object' = <<>>
      ]_vars

\* the second sheet of a document is converted: its connector names ids
\* that cells of the first sheet have, elements were made from those, and
\* the connector's source and target are None
C15_Witness ==
    /\ pc = "done" /\ origin = "input" /\ sheet = 2
    /\ CellsOf(xml, 2) = <<StrayConnector>>
    /\ \E i, j \in 1..Len(CellsOf(xml, 1)) :
          /\ CellsOf(xml, 1)[i].id = StrayConnector.source
          /\ CellsOf(xml, 1)[j].id = StrayConnector.target
    /\ Len(imported.pages[1].objects) >= 2
    /\ heap[Len(heap)].cls = "Edge"
    /\ heap[Len(heap)].source = 0 /\ heap[Len(heap)].target = 0

(***************************************************************************)
(* Claims about the export of an imported File.                            *)
(***************************************************************************)
\* the File imported from the input document has been exported
ReExported == pc = "reexported" /\ origin = "input"

\* flagged neither vertex nor edge
IsOpaque(cell) == cell.vertex # T1 /\ cell.edge # T1

\* the style attributes give the same mapping
SameStyle(a, b) ==
    DictEq(parse_style(AttrOrEmpty(a)).v, parse_style(AttrOrEmpty(b)).v)

\* the cell is the one written for the element: a vertex with the Object's
\* value, an edge with the Edge's label
CellFor(cell, elem) ==
    /\ elem.cls = "Object" => cell.vertex = T1 /\ cell.edge = AttrNone
    /\ elem.cls = "Edge" => cell.edge = T1 /\ cell.vertex = AttrNone
    /\ cell.value = elem.value

\* the cells written for a page carry ids by place: the first two cells are
\* '0' and '1' and no other cell has these ids; the shape or connector at
\* place k of the page (counted from 1) has exactly one cell, with the
\* decimal id k + 1; and there is no further cell
IdsByPlace(objects, cells) ==
    LET written == {k \in 1..Len(objects) : heap[objects[k]].cls \in {"Object", "Edge"}}
    IN  /\ Len(cells) = 2 + Cardinality(written)
        /\ cells[1].id = T0 /\ cells[2].id = T1
        /\ \A j \in 3..Len(cells) :
              /\ IsDigit(cells[j].id) /\ AllDecimal(cells[j].id)
              /\ cells[j].id \notin {T0, T1}
        /\ \A k \in written :
              \E j \in 3..Len(cells) :
                 /\ DigitsToNat(cells[j].id) = k + 1
                 /\ Head(cells[j].id) # "0"
                 /\ CellFor(cells[j], heap[objects[k]])
                 /\ \A i \in 3..Len(cells) : cells[i].id = cells[j].id => i = j

\* C16: in every exported sheet, of a File built through the API and of an
\* imported File (whatever ids its cells had in the input, and also when the
\* File itself comes from an earlier export), the element at place i of the
\* sheet's element sequence, counted from 0, is written with the decimal id
\* i + 2, shapes and connectors alike, and '0' and '1' are the ids of the
\* two reserved cells only.
C16_ExportIds ==
    /\ (origin = "api" /\ pc # "build") =>
           \A s \in 1..Len(file.pages) :
               IdsByPlace(file.pages[s].objects, CellsOf(xml, s))
    /\ pc = "reexported" =>
           \A s \in 1..Len(imported.pages) :
               IdsByPlace(imported.pages[s].objects, CellsOf(exported, s))

\* an imported sheet exported: its first cell, a connector with id "4", and
\* its second, a shape, are written as the cells "3" (the shape) and "2"
C16_Witness ==
    /\ ReExported
    /\ Len(OtherCells(CellsOf(xml, 1))) = 2
    /\ OtherCells(CellsOf(xml, 1))[1].id = <<"4">>
    /\ Len(CellsOf(exported, 1)) = 4
    /\ CellsOf(exported, 1)[3].id = <<"3">> /\ CellsOf(exported, 1)[3].vertex = T1
    /\ CellsOf(exported, 1)[4].id = <<"2">> /\ CellsOf(exported, 1)[4].edge = T1

\* the places of a page (counted from 1) that hold an element of the class
PlacesOf(objects, cls) ==
    SelectSeq([k \in 1..Len(objects) |-> k], LAMBDA k : heap[objects[k]].cls = cls)

\* the id written for a link: that of the place of the linked element, no
\* attribute when there is none on the page
LinkId(objects, ref) ==
    IF PosIn(objects, ref) = 0 THEN AttrNone ELSE NatToDigits(PosIn(objects, ref) + 1)

\* the cells written for a page: '0', then '1' with parent '0', then one
\* cell per shape in page order, then one per connector in page order, the
\* source and target of a connector being the ids of the linked elements
EmittedInOrder(objects, cells) ==
    LET shapes == PlacesOf(objects, "Object")
        edges == PlacesOf(objects, "Edge")
        places == shapes \o edges
    IN  /\ Len(cells) = 2 + Len(places)
        /\ cells[1].id = T0 /\ cells[1].parent = AttrNone
        /\ cells[2].id = T1 /\ cells[2].parent = T0
        /\ \A j \in 1..Len(places) :
              LET cell == cells[2 + j]
                  elem == heap[objects[places[j]]]
              IN  /\ cell.id = NatToDigits(places[j] + 1)
                  /\ CellFor(cell, elem)
                  /\ j <= Len(shapes) => cell.vertex = T1
                  /\ j > Len(shapes) =>
                        /\ cell.edge = T1
                        /\ cell.source = LinkId(objects, elem.source)
                        /\ cell.target = LinkId(objects, elem.target)

\* C17: every exported sheet (of a File built through the API, of an
\* imported File) holds, in this order, the cell '0', the cell '1' with
\* parent '0', the cells of all shapes in their order on the sheet, then
\* the cells of all connectors in their order on the sheet; a connector's
\* source and target attributes are the ids given to the linked elements.
C17_EmissionOrder ==
    /\ (origin = "api" /\ pc # "build") =>
           \A s \in 1..Len(file.pages) :
               EmittedInOrder(file.pages[s].objects, CellsOf(xml, s))
    /\ pc = "reexported" =>
           \A s \in 1..Len(imported.pages) :
               EmittedInOrder(imported.pages[s].objects, CellsOf(exported, s))

\* a sheet [Shape A, Connector X from A to B, Shape B] exported: the cells
\* after '0' and '1' are A ("2"), B ("4") and X ("3") from "2" to "4"
C17_Witness ==
    /\ ReExported
    /\ Len(imported.pages) >= 1
    /\ LET objects == imported.pages[1].objects
           cells == CellsOf(exported, 1)
       IN  /\ Len(objects) = 3 /\ Len(cells) = 5
           /\ heap[objects[1]].cls = "Object"
           /\ heap[objects[2]].cls = "Edge"
           /\ heap[objects[3]].cls = "Object"
           /\ heap[objects[2]].source = objects[1]
           /\ heap[objects[2]].target = objects[3]
           /\ cells[3].id = <<"2">> /\ cells[4].id = <<"4">> /\ cells[5].id = <<"3">>
           /\ cells[5].source = <<"2">> /\ cells[5].target = <<"4">>

\* C18: after import and export the host, agent, version, type and modified
\* attributes of the exported <mxfile> element are those of the input (an
\* attribute the input lacks counting as the empty text).
C18_ProvenancePreserved ==
    ReExported =>
        /\ AttrOrEmpty(exported.host) = AttrOrEmpty(xml.host)
        /\ AttrOrEmpty(exported.agent) = AttrOrEmpty(xml.agent)
        /\ AttrOrEmpty(exported.version) = AttrOrEmpty(xml.version)
        /\ AttrOrEmpty(exported.type) = AttrOrEmpty(xml.type)
        /\ AttrOrEmpty(exported.modified) = AttrOrEmpty(xml.modified)

\* C14: after import and export, for every cell of an input sheet that is
\* flagged neither vertex nor edge (its id not reserved) the exported sheet
\* holds a cell flagged neither vertex nor edge with the same value and
\* style, with a parent attribute other than the default layer exactly when
\* the input cell's parent names a cell of the sheet, and importing the
\* exported sheet makes an opaque element of it.
C14_OpaqueRoundTrip ==
    ReExported =>
        \A s \in 1..Len(xml.diagrams) :
            LET cells_in == OtherCells(CellsOf(xml, s))
                cells_out == OtherCells(CellsOf(exported, s))
                back == convert_diagram(heap, DiagramData(exported.diagrams[s]))
            IN  \A k \in 1..Len(cells_in) :
                    IsOpaque(cells_in[k]) =>
                        \E j \in 1..Len(cells_out) :
                            /\ IsOpaque(cells_out[j])
                            /\ AttrOrEmpty(cells_out[j].value)
                                   = AttrOrEmpty(cells_in[k].value)
                            /\ SameStyle(cells_out[j].style, cells_in[k].style)
                            /\ (cells_out[j].parent # T1)
                                   = (\E i \in 1..Len(cells_in) :
                                         cells_in[i].id = cells_in[k].parent)
                            /\ back.h[back.page.objects[j]].cls = "BasicObject"

(***************************************************************************)
(* Claims about pass 1 and about sheets with a repeated id.                *)
(***************************************************************************)
\* the last of the kept cells that has the id of the k-th
LastWithId(k) ==
    CHOOSE j \in 1..Len(Kept) :
        /\ Kept[j].id = Kept[k].id
        /\ \A i \in (j + 1)..Len(Kept) : Kept[i].id # Kept[k].id

\* C21: after a sheet is converted, the k-th cell whose id is not reserved
\* has made the k-th element of the page, and the kind follows the ordered
\* dispatch: edge='1' a connector whose label is the value attribute, also
\* when vertex='1' is set; otherwise vertex='1' a shape whose value is the
\* value attribute; otherwise an opaque element.  For a connector and a
\* shape a non-empty style attribute is the element's style, parsed.  The
\* table has an entry under the cell's id: the element of the cell, or of a
\* later cell with the same id.
C21_Classification ==
    SheetDone =>
        /\ Len(LastImported.objects) = Len(Kept)
        /\ \A k \in 1..Len(Kept) :
              LET c == Kept[k]
                  e == ElemOf(k)
              IN  /\ c.edge = T1 =>
                        e.cls = "Edge" /\ e.value = AttrOrEmpty(c.value)
                  /\ (c.edge # T1 /\ c.vertex = T1) =>
                        e.cls = "Object" /\ e.value = AttrOrEmpty(c.value)
                  /\ (c.edge # T1 /\ c.vertex # T1) => e.cls = "BasicObject"
                  /\ ((c.edge = T1 \/ c.vertex = T1) /\ AttrOrEmpty(c.style) # <<>>) =>
                        e.style = parse_style(c.style).v
                  /\ DictHas(id_to_object, c.id)
                  /\ DictGet(id_to_object, c.id, 0) = LastImported.objects[LastWithId(k)]

\* a converted sheet with a cell flagged vertex and edge that made a
\* connector, a styled vertex cell that made a styled shape, and a cell
\* flagged neither that made an opaque element
C21_Witness ==
    /\ SheetDone
    /\ \E k \in 1..Len(Kept) :
          Kept[k].edge = T1 /\ Kept[k].vertex = T1 /\ ElemOf(k).cls = "Edge"
    /\ \E k \in 1..Len(Kept) :
          /\ Kept[k].edge # T1 /\ Kept[k].vertex = T1
          /\ AttrOrEmpty(Kept[k].style) # <<>>
          /\ ElemOf(k).cls = "Object" /\ ElemOf(k).style # <<>>
    /\ \E k \in 1..Len(Kept) :
          Kept[k].edge # T1 /\ Kept[k].vertex # T1 /\ ElemOf(k).cls = "BasicObject"

\* the element a reference resolves to in pass 2: the table's entry for a
\* non-empty id that is not reserved, 0 when there is none
ResolvesTo(ref) ==
    IF ref # AttrNone /\ ref # <<>> /\ ref \notin {T0, T1} /\ DictHas(id_to_object, ref)
    THEN DictGet(id_to_object, ref, 0) ELSE 0

\* what the cells with the id of the k-th kept cell leave in a field of the
\* table's element: what the last of them whose attribute resolves names
LastResolved(k, field) ==
    LET js == {j \in 1..Len(Kept) :
                  Kept[j].id = Kept[k].id /\ ResolvesTo(Kept[j][field]) # 0}
    IN  IF js = {} THEN 0
        ELSE ResolvesTo(Kept[CHOOSE j \in js : \A i \in js : i <= j][field])

\* C28: after a sheet is converted, also one in which cells share an id:
\* every cell whose id is not reserved has made an element of its own; the
\* table holds, under an id, the element of the last cell with that id, and
\* this is what every reference to the id resolves to; the element of an
\* earlier cell with the id has no parent, source or target; the element of
\* the last cell has the parent that the last cell with the id whose parent
\* attribute resolves names, and, when it is a connector, source and target
\* likewise (when it is not, neither).
C28_DuplicateIds ==
    SheetDone =>
        /\ Len(LastImported.objects) = Len(Kept)
        /\ \A i, j \in 1..Len(Kept) :
              LastImported.objects[i] = LastImported.objects[j] => i = j
        /\ \A k \in 1..Len(Kept) :
              LET e == ElemOf(k) IN
              /\ DictGet(id_to_object, Kept[k].id, 0) = LastImported.objects[LastWithId(k)]
              /\ k # LastWithId(k) => e.parent = 0 /\ e.source = 0 /\ e.target = 0
              /\ k = LastWithId(k) =>
                    /\ e.parent = LastResolved(k, "parent")
                    /\ e.source = IF e.cls = "Edge" THEN LastResolved(k, "source") ELSE 0
                    /\ e.target = IF e.cls = "Edge" THEN LastResolved(k, "target") ELSE 0

\* a converted sheet with two different cells of one id and a third cell
\* that names this id: the third is wired to the element of the later
\* cell, which has its parent from the earlier cell, and the element of the
\* earlier cell has no links
C28_Witness ==
    /\ SheetDone
    /\ \E i, j, k \in 1..Len(Kept) :
          /\ i < j
          /\ Kept[i].id = Kept[j].id /\ Kept[i] # Kept[j]
          /\ Kept[k].id # Kept[i].id
          /\ Kept[k].source = Kept[i].id
          /\ ElemOf(k).source = LastImported.objects[j]
          /\ Kept[i].parent = Kept[k].id
          /\ ElemOf(j).parent = LastImported.objects[k]
          /\ ElemOf(i).parent = 0 /\ ElemOf(i).source = 0

(***************************************************************************)
(* Claims about the references written on export.                          *)
(***************************************************************************)
\* the id the export table gives an element of the page: its place plus one
TableId(objects, ref) == NatToDigits(PosIn(objects, ref) + 1)

\* the cells written for a page resolve the links of their elements: the
\* parent attribute is the table's id of the parent, '1' when the element
\* has none or it is not on the page; a connector has a source (target)
\* attribute exactly when the linked element is on the page, and it is the
\* table's id of that element
Resolved(objects, cells) ==
    LET places == PlacesOf(objects, "Object") \o PlacesOf(objects, "Edge")
    IN  /\ Len(cells) = 2 + Len(places)
        /\ \A j \in 1..Len(places) :
              LET cell == cells[2 + j]
                  elem == heap[objects[places[j]]]
              IN  /\ cell.parent = IF PosIn(objects, elem.parent) = 0 THEN T1
                                   ELSE TableId(objects, elem.parent)
                  /\ elem.cls = "Edge" =>
                        /\ (cell.source # AttrNone) = (PosIn(objects, elem.source) # 0)
                        /\ (cell.target # AttrNone) = (PosIn(objects, elem.target) # 0)
                        /\ cell.source # AttrNone =>
                              cell.source = TableId(objects, elem.source)
                        /\ cell.target # AttrNone =>
                              cell.target = TableId(objects, elem.target)
                  /\ elem.cls = "Object" =>
                        cell.source = AttrNone /\ cell.target = AttrNone

\* C22: in every exported sheet (of a File built through the API, of an
\* imported File) each cell's parent attribute is the id the export table
\* gives the element's parent, or '1' when the element has no parent or
\* the parent is not in the table; a connector's source (target) attribute
\* is written only when the linked element is in the table and is then the
\* id given to it; a connector whose source is not on the sheet is written
\* without a source attribute.
C22_ReferenceResolution ==
    /\ (origin = "api" /\ pc # "build") =>
           \A s \in 1..Len(file.pages) :
               Resolved(file.pages[s].objects, CellsOf(xml, s))
    /\ pc = "reexported" =>
           \A s \in 1..Len(imported.pages) :
               Resolved(imported.pages[s].objects, CellsOf(exported, s))

\* an exported sheet with a connector whose source is an element that is
\* not on the sheet and whose target is: its cell has a target and no
\* source; and a connector whose parent is not on the sheet, written with
\* the parent '1'
C22_Witness ==
    /\ origin = "api" /\ pc = "exported"
    /\ \E s \in 1..Len(file.pages) :
          LET objects == file.pages[s].objects
              cells == CellsOf(xml, s)
          IN  /\ \E k \in 1..Len(objects) : \E j \in 3..Len(cells) :
                    /\ heap[objects[k]].cls = "Edge"
                    /\ heap[objects[k]].source # 0
                    /\ PosIn(objects, heap[objects[k]].source) = 0
                    /\ cells[j].id = NatToDigits(k + 1)
                    /\ cells[j].source = AttrNone
                    /\ cells[j].target # AttrNone
              /\ \E k \in 1..Len(objects) : \E j \in 3..Len(cells) :
                    /\ heap[objects[k]].parent # 0
                    /\ PosIn(objects, heap[objects[k]].parent) = 0
                    /\ cells[j].id = NatToDigits(k + 1)
                    /\ cells[j].parent = T1

\* the routing points of a connector are the ones the mxPoint children
\* give, in their order
SamePoints(points, array) ==
    /\ Len(points) = Len(array)
    /\ \A i \in 1..Len(array) :
          /\ NumEq(points[i][1], float(array[i].x))
          /\ NumEq(points[i][2], float(array[i].y))

\* C27: after export and import of an API-built file, for every connector
\* with routing points the cell written for it has an mxGeometry with
\* relative='1' and one mxPoint per routing point in the same order, and
\* the connector imported from that cell has the same routing points in
\* the same order.
C27_RoutingPointsRoundTrip ==
    RoundTripDone =>
        \A p \in 1..Len(file.pages) :
            LET objects == file.pages[p].objects
                cells == CellsOf(xml, p)
            IN  \A k \in 1..Len(objects) :
                    (heap[objects[k]].cls = "Edge" /\ heap[objects[k]].points # <<>>) =>
                        \E j \in 3..Len(cells) :
                            /\ cells[j].id = NatToDigits(k + 1)
                            /\ cells[j].geometry.has
                            /\ cells[j].geometry.relative = T1
                            /\ SamePoints(heap[objects[k]].points,
                                          cells[j].geometry.points)
                            /\ SamePoints(heap[imported.pages[p].objects[j - 2]].points,
                                          cells[j].geometry.points)

\* the cells written for a sheet are well formed: no two have the same
\* id, and every parent, source and target attribute is the id of a cell of
\* the sheet
WellFormed(cells) ==
    /\ \A i, j \in 1..Len(cells) : cells[i].id = cells[j].id => i = j
    /\ \A i \in 1..Len(cells) :
          \A ref \in {cells[i].parent, cells[i].source, cells[i].target} :
              ref # AttrNone => \E j \in 1..Len(cells) : cells[j].id = ref

\* C26: every exported sheet, whatever its element sequence (also when a
\* parent, source or target is an element of the sheet that neither the
\* loop of the shapes nor the loop of the connectors writes), has cells
\* with pairwise distinct ids whose parent, source and target attributes
\* each name a cell written in the same sheet ('0' and '1' among them).
C26_ExportWellFormed ==
    /\ (origin = "api" /\ pc # "build") =>
           \A s \in 1..Len(file.pages) : WellFormed(CellsOf(xml, s))
    /\ pc = "reexported" =>
           \A s \in 1..Len(imported.pages) : WellFormed(CellsOf(exported, s))

(***************************************************************************)
(* DrawioDecompressor (reader/decompressor.py): UTF-8, raw deflate and     *)
(* base64 on bytes (numbers 0..255) and bits (0 or 1).                     *)
(*                                                                         *)
(* The characters of the texts encoded here are the ASCII characters of    *)
(* AsciiChars, "sup2" (U+00B2, two bytes in UTF-8) and "surr" (a lone          *)
(* surrogate, which str.encode('utf-8') rejects).  Which deflate encoding  *)
(* zlib.compress picks is the library's choice: the parameter deflate of   *)
(* compress names one of three valid encodings.                            *)
(***************************************************************************)
\* the base64 alphabet, value v at place v + 1
B64Chars ==
    << "A", "B", "C", "D", "E", "F", "G", "H", "I", "J", "K", "L", "M",
       "N", "O", "P", "Q", "R", "S", "T", "U", "V", "W", "X", "Y", "Z",
       "a", "b", "c", "d", "e", "f", "g", "h", "i", "j", "k", "l", "m",
       "n", "o", "p", "q", "r", "s", "t", "u", "v", "w", "x", "y", "z",
       "0", "1", "2", "3", "4", "5", "6", "7", "8", "9", "+", "/" >>

\* ord(c) for the ASCII characters of the texts
CodeOf(c) ==
    LET v == IndexOf(B64Chars, c) - 1 IN
    IF v >= 0
    THEN (IF v < 26 THEN 65 + v ELSE IF v < 52 THEN 97 + (v - 26)
          ELSE IF v < 62 THEN 48 + (v - 52) ELSE IF v = 62 THEN 43 ELSE 47)
    ELSE (IF c = "<" THEN 60 ELSE IF c = ">" THEN 62 ELSE IF c = "=" THEN 61 ELSE 32)

\* the ASCII characters of the texts
AsciiChars == {B64Chars[i] : i \in 1..Len(B64Chars)} \cup {"<", ">", "=", " "}

\* the UTF-8 bytes of one character
Utf8Bytes(c) == IF c = "sup2" THEN <<194, 178>> ELSE <<CodeOf(c)>>

RECURSIVE Flatten(_)
Flatten(seqs) == IF Len(seqs) = 0 THEN <<>> ELSE Head(seqs) \o Flatten(Tail(seqs))

\* content.encode('utf-8')
Utf8Encode(text) ==
    IF \E i \in 1..Len(text) : text[i] = "surr" THEN Raised
    ELSE Ok(Flatten([i \in 1..Len(text) |-> Utf8Bytes(text[i])]))

RECURSIVE Utf8Decode(_)
\* decompressed.decode('utf-8'); a character outside the alphabet above is
\* "?", and only one- and two-byte sequences are told apart from errors
Utf8Decode(bytes) ==
    IF Len(bytes) = 0 THEN Ok(<<>>)
    ELSE LET b == Head(bytes)
             two == b \in 194..223 /\ Len(bytes) >= 2 /\ bytes[2] \in 128..191
             c == IF b < 128
                  THEN (IF \E x \in AsciiChars : CodeOf(x) = b
                        THEN CHOOSE x \in AsciiChars : CodeOf(x) = b ELSE "?")
                  ELSE (IF b = 194 /\ bytes[2] = 178 THEN "sup2" ELSE "?")
             rest == Utf8Decode(SubSeq(bytes, IF b < 128 THEN 2 ELSE 3, Len(bytes)))
         IN  IF b >= 128 /\ ~two THEN Raised
             ELSE IF ~rest.ok THEN Raised
             ELSE Ok(<<c>> \o rest.v)

RECURSIVE b64encode(_)
\* base64.b64encode
b64encode(bytes) ==
    LET ch(v) == B64Chars[v + 1] IN
    IF Len(bytes) = 0 THEN <<>>
    ELSE IF Len(bytes) = 1
    THEN <<ch(bytes[1] \div 4), ch((bytes[1] % 4) * 16), "=", "=">>
    ELSE IF Len(bytes) = 2
    THEN <<ch(bytes[1] \div 4), ch((bytes[1] % 4) * 16 + bytes[2] \div 16),
           ch((bytes[2] % 16) * 4), "=">>
    ELSE <<ch(bytes[1] \div 4), ch((bytes[1] % 4) * 16 + bytes[2] \div 16),
           ch((bytes[2] % 16) * 4 + bytes[3] \div 64), ch(bytes[3] % 64)>>
         \o b64encode(SubSeq(bytes, 4, Len(bytes)))

RECURSIVE B64Scan(_, _, _, _, _, _)
\* binascii.a2b_base64 without strict mode: characters outside the alphabet
\* are skipped, a completed padding ends the scan, a dangling group is an error
B64Scan(text, i, quad_pos, leftchar, pads, out) ==
    IF i > Len(text) THEN (IF quad_pos # 0 THEN Raised ELSE Ok(out))
    ELSE IF text[i] = "="
    THEN IF quad_pos >= 2 /\ quad_pos + pads + 1 >= 4 THEN Ok(out)
         ELSE B64Scan(text, i + 1, quad_pos, leftchar,
                      IF quad_pos >= 2 THEN pads + 1 ELSE pads, out)
    ELSE IF ~Contains(B64Chars, text[i])
    THEN B64Scan(text, i + 1, quad_pos, leftchar, pads, out)
    ELSE LET v == IndexOf(B64Chars, text[i]) - 1 IN
         CASE quad_pos = 0 -> B64Scan(text, i + 1, 1, v, 0, out)
           [] quad_pos = 1 ->
                B64Scan(text, i + 1, 2, v % 16, 0, Append(out, leftchar * 4 + v \div 16))
           [] quad_pos = 2 ->
                B64Scan(text, i + 1, 3, v % 4, 0, Append(out, leftchar * 16 + v \div 4))
           [] quad_pos = 3 ->
                B64Scan(text, i + 1, 0, 0, 0, Append(out, leftchar * 64 + v))

\* base64.b64decode(content) for a str: non-ASCII characters are rejected
b64decode(content) ==
    IF \E i \in 1..Len(content) : content[i] \in {"sup2", "surr"} THEN Raised
    ELSE B64Scan(content, 1, 0, 0, 0, <<>>)

\* the w bits of n, most significant first (Huffman codes) and least
\* significant first (everything else in a deflate stream)
Msb(n, w) == [i \in 1..w |-> (n \div 2^(w - i)) % 2]
Lsb(n, w) == [i \in 1..w |-> (n \div 2^(i - 1)) % 2]

RECURSIVE BitsValue(_)
\* the number whose bits, least significant first, are given
BitsValue(bits) == IF Len(bits) = 0 THEN 0 ELSE Head(bits) + 2 * BitsValue(Tail(bits))

\* the number whose bits, most significant first, are bits[p .. p + w - 1]
MsbValue(bits, p, w) == BitsValue([i \in 1..w |-> bits[p + w - i]])

RECURSIVE Pack(_)
\* bits to bytes, the last byte filled with zero bits
Pack(bits) ==
    IF Len(bits) = 0 THEN <<>>
    ELSE IF Len(bits) < 8 THEN <<BitsValue(bits)>>
    ELSE <<BitsValue(SubSeq(bits, 1, 8))>> \o Pack(SubSeq(bits, 9, Len(bits)))

\* the fixed Huffman code of a literal / length symbol
HuffCode(sym) ==
    IF sym <= 143 THEN Msb(48 + sym, 8)
    ELSE IF sym <= 255 THEN Msb(400 + (sym - 144), 9)
    ELSE IF sym <= 279 THEN Msb(sym - 256, 7)
    ELSE Msb(192 + (sym - 280), 8)

\* how far bytes[j ..] and bytes[i ..] agree (j < i), at most 10 bytes
MatchLen(bytes, j, i) ==
    LET agree(k) == \A m \in 0..(k - 1) : bytes[j + m] = bytes[i + m]
        ks == {k \in 0..10 : i + k - 1 <= Len(bytes) /\ agree(k)}
    IN  CHOOSE k \in ks : \A k2 \in ks : k2 <= k

RECURSIVE Tokens(_, _, _)
\* the LZ77 tokens of bytes[i ..]: literals only, or the longest match of
\* 3 to 10 bytes at a distance of 1 to 4 wherever there is one
Tokens(bytes, i, deflate) ==
    IF i > Len(bytes) THEN <<>>
    ELSE LET js == {j \in 1..(i - 1) : i - j <= 4 /\ MatchLen(bytes, j, i) >= 3}
             j == CHOOSE x \in js : \A y \in js :
                      \/ MatchLen(bytes, y, i) < MatchLen(bytes, x, i)
                      \/ MatchLen(bytes, y, i) = MatchLen(bytes, x, i) /\ y <= x
         IN  IF deflate = "matches" /\ js # {}
             THEN <<[len |-> MatchLen(bytes, j, i), dist |-> i - j]>>
                  \o Tokens(bytes, i + MatchLen(bytes, j, i), deflate)
             ELSE <<[len |-> 0, dist |-> bytes[i]]>> \o Tokens(bytes, i + 1, deflate)

\* the bits of a token: a literal, or a length symbol and a 5-bit distance code
TokenBits(tok) ==
    IF tok.len = 0 THEN HuffCode(tok.dist)
    ELSE HuffCode(254 + tok.len) \o Msb(tok.dist - 1, 5)

\* one final block of raw deflate: stored, or fixed Huffman codes
Deflate(bytes, deflate) ==
    IF deflate = "stored"
    THEN <<1, Len(bytes) % 256, Len(bytes) \div 256,
           255 - (Len(bytes) % 256), 255 - (Len(bytes) \div 256)>> \o bytes
    ELSE LET toks == Tokens(bytes, 1, deflate) IN
         Pack(<<1, 1, 0>> \o Flatten([i \in 1..Len(toks) |-> TokenBits(toks[i])])
              \o Msb(0, 7))

RECURSIVE AdlerSums(_, _, _)
AdlerSums(bytes, a, b) ==
    IF Len(bytes) = 0 THEN <<a, b>>
    ELSE AdlerSums(Tail(bytes), (a + Head(bytes)) % 65521,
                   (b + ((a + Head(bytes)) % 65521)) % 65521)

\* zlib.compress(content, 9): header, deflate data, Adler-32 checksum
zlib_compress(bytes, deflate) ==
    LET s == AdlerSums(bytes, 1, 0) IN
    <<120, 218>> \o Deflate(bytes, deflate)
        \o <<s[2] \div 256, s[2] % 256, s[1] \div 256, s[1] % 256>>

\* compress without the [2:-4] slice: the zlib header and checksum stay
compress_whole_stream(content, deflate) ==
    LET encoded == Utf8Encode(content) IN
    IF ~encoded.ok THEN Raised
    ELSE Ok(b64encode(zlib_compress(encoded.v, deflate)))

\* DrawioDecompressor.compress
compress(content, deflate) ==
    LET encoded == Utf8Encode(content)
        z == zlib_compress(encoded.v, deflate)
    IN  IF ~encoded.ok THEN Raised
        ELSE Ok(b64encode(SubSeq(z, 3, Len(z) - 4)))

RECURSIVE CopyMatch(_, _, _)
\* len bytes copied from dist bytes back, one at a time (the copy may overlap)
CopyMatch(out, len, dist) ==
    IF len = 0 THEN out
    ELSE CopyMatch(Append(out, out[Len(out) + 1 - dist]), len - 1, dist)

RECURSIVE InflateFixed(_, _, _)
\* the symbols of a fixed Huffman block from bit p on: [ok, p, out].  Length
\* symbols above 264 and distance codes above 3 carry extra bits and are not
\* produced by any text of the inputs below; they are not decoded.
InflateFixed(bits, p, out) ==
    LET fail == [ok |-> FALSE, p |-> p, out |-> out]
        has(w) == p + w - 1 <= Len(bits)
        v7 == MsbValue(bits, p, 7)
        w == IF v7 <= 23 THEN 7 ELSE IF v7 <= 99 THEN 8 ELSE 9
        v == MsbValue(bits, p, w)
        sym == IF w = 7 THEN 256 + v
               ELSE IF w = 9 THEN 144 + (v - 400)
               ELSE IF v <= 191 THEN v - 48
               ELSE 280 + (v - 192)
        q == p + w
        dist == MsbValue(bits, q, 5) + 1
    IN  IF ~has(7) THEN fail
        ELSE IF ~has(w) THEN fail
        ELSE IF sym = 256 THEN [ok |-> TRUE, p |-> q, out |-> out]
        ELSE IF sym < 256 THEN InflateFixed(bits, q, Append(out, sym))
        ELSE IF sym > 264 THEN fail
        ELSE IF q + 4 > Len(bits) THEN fail
        ELSE IF dist > 4 \/ dist > Len(out) THEN fail
        ELSE InflateFixed(bits, q + 5, CopyMatch(out, sym - 254, dist))

RECURSIVE InflateBlocks(_, _, _)
\* the blocks of a raw deflate stream from bit p on, up to the end of the
\* final block; what follows it is ignored.  Blocks with dynamic codes
\* (type 2) are not produced by any text of the inputs below and not decoded.
InflateBlocks(bits, p, out) ==
    IF p + 2 > Len(bits) THEN Raised
    ELSE LET bfinal == bits[p]
             btype == bits[p + 1] + 2 * bits[p + 2]
             \* a stored block starts at the next byte boundary
             q == p + 3 + ((8 - ((p + 2) % 8)) % 8)
             len == BitsValue(SubSeq(bits, q, q + 15))
             nlen == BitsValue(SubSeq(bits, q + 16, q + 31))
             data == [i \in 1..len |-> BitsValue(SubSeq(bits, q + 24 + 8 * i, q + 31 + 8 * i))]
             fixed == InflateFixed(bits, p + 3, out)
         IN  IF btype = 0
             THEN IF q + 31 > Len(bits) THEN Raised
                  ELSE IF nlen # 65535 - len THEN Raised
                  ELSE IF q + 31 + 8 * len > Len(bits) THEN Raised
                  ELSE IF bfinal = 1 THEN Ok(out \o data)
                  ELSE InflateBlocks(bits, q + 32 + 8 * len, out \o data)
             ELSE IF btype = 1
             THEN IF ~fixed.ok THEN Raised
                  ELSE IF bfinal = 1 THEN Ok(fixed.out)
                  ELSE InflateBlocks(bits, fixed.p, fixed.out)
             ELSE Raised

\* zlib.decompress(decoded, -zlib.MAX_WBITS)
zlib_decompress(bytes) ==
    InflateBlocks(Flatten([i \in 1..Len(bytes) |-> Lsb(bytes[i], 8)]), 1, <<>>)

\* DrawioDecompressor.decompress: every failure is a ValueError
decompress(content) ==
    LET decoded == b64decode(content)
        decompressed == zlib_decompress(decoded.v)
    IN  IF ~decoded.ok THEN Raised
        ELSE IF ~decompressed.ok THEN Raised
        ELSE Utf8Decode(decompressed.v)

\* is_compressed without the test for '<' and '>'
is_compressed_base64_only(content) == b64decode(content).ok

\* DrawioDecompressor.is_compressed
is_compressed(content) ==
    IF Contains(content, "<") /\ Contains(content, ">") THEN FALSE
    ELSE b64decode(content).ok

(***************************************************************************)
(* Calls of DrawioDecompressor.  A call sequence starts from a text: any   *)
(* text of up to MaxText characters, or one of the texts of CodedTexts     *)
(* (base64 with good and bad padding, of deflate data and of other bytes). *)
(***************************************************************************)
MaxText == 3

CodecChars == {"a", "b", "<", ">", "sup2", "surr"}

PlainTexts == UNION {[1..n -> CodecChars] : n \in 0..MaxText}

CodedTexts ==
    { <<"a", "b", "c">>,                                \* 'abc': bad padding
      <<"a", "b", "c", "d">>,                           \* 'abcd': not deflate data
      <<"S", "w", "Q", "A">>,                           \* 'SwQA': 'a', fixed codes
      <<"S", "w", " ", "Q", "A", "=">>,                 \* the same with noise
      <<"A", "Q", "E", "A", "/", "v", "9", "h">>,       \* 'AQEA/v9h': 'a', stored
      <<"A", "A", "E", "A", "/", "v", "9", "h", "S", "w", "Q", "A">>,  \* two blocks
      <<"S", "0", "x", "M", "B", "E", "I", "A">>,       \* 'S0xMBEIA': 'aaaaaa'
      <<"Y", "Q", "=", "=">>,                           \* 'YQ==': truncated stream
      <<"B", "w", "=", "=">> }                          \* 'Bw==': invalid block type

\* the encodings zlib.compress may pick
DeflateChoices == {"stored", "literals", "matches"}

InitCodec ==
    /\ codecIn \in PlainTexts \cup CodedTexts
    /\ codecOut = Ok(<<>>)
    /\ codecBack = Ok(<<>>)
    /\ codecFlag = FALSE
    /\ codecPc = "start"
    /\ StyleIdle /\ GraphIdle /\ ParseIdle /\ SaveIdle /\ RenderIdle

\* compress(codecIn)
Compress(deflate) ==
    /\ codecPc = "start"
    /\ codecOut' = compress(codecIn, deflate)
    /\ codecPc' = "compressed"
    /\ UNCHANGED <<codecIn, codecBack, codecFlag>>
    /\ UNCHANGED <<styleVars, graphVars, parseVars, saveVars, renderVars>>

\* decompress(the text compress returned)
DecompressOut ==
    /\ codecPc = "compressed"
    /\ codecOut.ok
    /\ codecBack' = decompress(codecOut.v)
    /\ codecPc' = "restored"
    /\ UNCHANGED <<codecIn, codecOut, codecFlag>>
    /\ UNCHANGED <<styleVars, graphVars, parseVars, saveVars, renderVars>>

\* is_compressed(the text compress returned)
IsCompressedOut ==
    /\ codecPc = "compressed"
    /\ codecOut.ok
    /\ codecFlag' = is_compressed(codecOut.v)
    /\ codecPc' = "judgedOut"
    /\ UNCHANGED <<codecIn, codecOut, codecBack>>
    /\ UNCHANGED <<styleVars, graphVars, parseVars, saveVars, renderVars>>

\* decompress(codecIn)
Decompress ==
    /\ codecPc = "start"
    /\ codecBack' = decompress(codecIn)
    /\ codecPc' = "decompressed"
    /\ UNCHANGED <<codecIn, codecOut, codecFlag>>
    /\ UNCHANGED <<styleVars, graphVars, parseVars, saveVars, renderVars>>

\* is_compressed(codecIn)
IsCompressed ==
    /\ codecPc = "start"
    /\ codecFlag' = is_compressed(codecIn)
    /\ codecPc' = "judged"
    /\ UNCHANGED <<codecIn, codecOut, codecBack>>
    /\ UNCHANGED <<styleVars, graphVars, parseVars, saveVars, renderVars>>

NextCodec ==
    \/ \E deflate \in DeflateChoices : Compress(deflate)
    \/ DecompressOut
    \/ IsCompressedOut
    \/ Decompress
    \/ IsCompressed

SpecCodec == InitCodec /\ [][NextCodec]_vars

\* C2: whenever compress is given a well-formed text (one that encodes to
\* UTF-8) it returns a text and raises nothing, whichever deflate encoding
\* the library picks, and decompress of the text it returned is the text
\* compress was given.
C2_CodecRoundTrip ==
    /\ (codecPc = "compressed" /\ Utf8Encode(codecIn).ok) => codecOut.ok
    /\ codecPc = "restored" => codecBack = Ok(codecIn)

\* a round trip of a text that holds a two-byte character and a '<'
C2_Witness ==
    /\ codecPc = "restored"
    /\ Contains(codecIn, "sup2")
    /\ Contains(codecIn, "<")
    /\ codecBack.ok
    /\ codecOut.v # codecIn

\* the text is base64 as RFC 4648 defines it: groups of four characters of
\* the alphabet, the last group ending in at most two '='
ValidBase64(text) ==
    LET pads == IF Len(text) >= 2 /\ text[Len(text)] = "=" /\ text[Len(text) - 1] = "="
                THEN 2
                ELSE IF Len(text) >= 1 /\ text[Len(text)] = "=" THEN 1 ELSE 0
    IN  /\ Len(text) % 4 = 0
        /\ \A i \in 1..(Len(text) - pads) : Contains(B64Chars, text[i])

\* C23: is_compressed(text) is False for a text that holds both a '<' and
\* a '>'; for any other text it is True exactly when the text is valid
\* base64; and is_compressed of a text that compress returned is True.
C23_LooksEncoded ==
    /\ codecPc = "judged" =>
          codecFlag = IF Contains(codecIn, "<") /\ Contains(codecIn, ">") THEN FALSE
                      ELSE ValidBase64(codecIn)
    /\ codecPc = "judgedOut" => codecFlag

(***************************************************************************)
(* DrawioParser (reader/parser.py).                                        *)
(*                                                                         *)
(* The text of a <diagram> element is parsed character by character by     *)
(* fromstring, for markup without attributes: elements, character data and *)
(* white space.  A node is [tag, text, items]: an element with its items   *)
(* in order, or a run of character data (tag <<>>).                        *)
(***************************************************************************)
ValueError == [ok |-> FALSE, v |-> "ValueError"]
ParseError == [ok |-> FALSE, v |-> "ParseError"]

\* the character at place p, "" past the end
At(text, p) == IF p >= 1 /\ p <= Len(text) THEN text[p] ELSE ""

IsNameStart(c) == IndexOf(B64Chars, c) \in 1..52
IsNameChar(c) == IndexOf(B64Chars, c) \in 1..62

\* the first place from p on whose character does not satisfy Test
SkipWhile(text, p, Test(_)) ==
    LET stops == {q \in p..(Len(text) + 1) : q > Len(text) \/ ~Test(text[q])}
    IN  IF p > Len(text) THEN p
        ELSE CHOOSE q \in stops : \A q2 \in stops : q <= q2

IsSpace(c) == c = " "
NotOpen(c) == c # "<"

\* content.strip()
Strip(text) ==
    LET first == SkipWhile(text, 1, IsSpace)
        ends == {e \in 0..Len(text) : \A i \in (e + 1)..Len(text) : text[i] = " "}
        last == CHOOSE e \in ends : \A e2 \in ends : e <= e2
    IN  SubSeq(text, first, last)

RECURSIVE ParseElement(_, _)
RECURSIVE ParseContent(_, _, _, _)
\* an element that starts at place p: [ok, p, node], p the place after it
ParseElement(text, p) ==
    LET fail == [ok |-> FALSE, p |-> p, node |-> <<>>]
        e == SkipWhile(text, p + 1, IsNameChar)
        tag == SubSeq(text, p + 1, e - 1)
        q == SkipWhile(text, e, IsSpace)
    IN  IF At(text, p) # "<" \/ ~IsNameStart(At(text, p + 1)) THEN fail
        ELSE IF At(text, q) = "/" /\ At(text, q + 1) = ">"
        THEN [ok |-> TRUE, p |-> q + 2,
              node |-> [tag |-> tag, text |-> <<>>, items |-> <<>>]]
        ELSE IF At(text, q) = ">" THEN ParseContent(text, q + 1, tag, <<>>)
        ELSE fail

\* the content of the element tag from place p up to its end tag
ParseContent(text, p, tag, items) ==
    LET fail == [ok |-> FALSE, p |-> p, node |-> <<>>]
        r == SkipWhile(text, p, NotOpen)
        e == SkipWhile(text, p + 2, IsNameChar)
        q == SkipWhile(text, e, IsSpace)
        child == ParseElement(text, p)
    IN  IF p > Len(text) THEN fail
        ELSE IF text[p] # "<"
        THEN ParseContent(text, r, tag,
                 Append(items, [tag |-> <<>>, text |-> SubSeq(text, p, r - 1),
                                items |-> <<>>]))
        ELSE IF At(text, p + 1) = "/"
        THEN IF SubSeq(text, p + 2, e - 1) = tag /\ At(text, q) = ">"
             THEN [ok |-> TRUE, p |-> q + 1,
                   node |-> [tag |-> tag, text |-> <<>>, items |-> items]]
             ELSE fail
        ELSE IF ~child.ok THEN fail
        ELSE ParseContent(text, child.p, tag, Append(items, child.node))

\* ET.fromstring(content): the root element, or ParseError
fromstring(text) ==
    LET root == ParseElement(text, SkipWhile(text, 1, IsSpace)) IN
    IF ~root.ok THEN ParseError
    ELSE IF SkipWhile(text, root.p, IsSpace) <= Len(text) THEN ParseError
    ELSE Ok(root.node)

(***************************************************************************)
(* The outer document is given as the element tree ET.fromstring yields    *)
(* for it (root tag, the five optional attributes, the children of the     *)
(* root), or as markup that is not well-formed.  A child is [tag, id,      *)
(* name, text, children]; text is AttrNone when the element has no text.   *)
(***************************************************************************)
\* root.findall('diagram'): the direct children with that tag, in order
findall_diagram(root) == SelectSeq(root.children, LAMBDA c : c.tag = "diagram")

\* the markup of a diagram's stripped text: decompressed when the text is
\* judged compressed (an error of decompress is passed on), else as it is
DiagramContent(stripped) ==
    IF is_compressed(stripped) THEN decompress(stripped) ELSE Ok(stripped)

\* the entry made of a diagram element and the tree of its content
EntryOf(diagram_elem, content_root) ==
    IF ~content_root.ok THEN ValueError
    ELSE Ok([id |-> AttrOrEmpty(diagram_elem.id),
             name |-> AttrOrEmpty(diagram_elem.name),
             content |-> content_root.v])

\* the content parsed, unless decompressing it has failed
ContentRoot(content) ==
    IF ~content.ok THEN ValueError ELSE fromstring(content.v)

\* one round of the loop that makes an entry with an empty tree of a
\* diagram without text
diagram_entry_empty_sheet(diagram_elem) ==
    IF diagram_elem.text = AttrNone \/ Strip(diagram_elem.text) = <<>>
    THEN EntryOf(diagram_elem, fromstring(<<"<", "a", "/", ">">>))
    ELSE EntryOf(diagram_elem,
                 ContentRoot(DiagramContent(Strip(diagram_elem.text))))

\* one round of the loop over the diagrams: the entry, or the error raised
DiagramEntry(diagram_elem) ==
    EntryOf(diagram_elem,
            ContentRoot(DiagramContent(
                IF diagram_elem.text # AttrNone /\ diagram_elem.text # <<>>
                THEN Strip(diagram_elem.text) ELSE <<>>)))

\* well-formed inner markup, as ET.tostring writes it
XmlTexts ==
    { <<"<", "a", "/", ">">>,
      <<"<", "a", "b", "c", "/", ">">>,
      <<"<", "a", ">", "<", "b", "/", ">", " ", "<", "/", "a", ">">> }

\* the texts of <diagram> elements: inner markup plain and compressed,
\* markup that is not well-formed (plain and compressed), base64 text that
\* is not deflate data, white space around the text, no text
BodyTexts ==
    XmlTexts
    \cup {compress(x, "literals").v : x \in XmlTexts}
    \cup { compress(<<"<", "a", "/", ">">>, "stored").v,
           <<"<", "a", ">">>,
           compress(<<"<", "a", ">">>, "literals").v,
           <<" ">> \o compress(<<"<", "a", "/", ">">>, "matches").v \o <<" ">>,
           <<"a", "b", "c", "d">>,
           <<" ">>,
           AttrNone }

Child(tag, attrs, text, children) ==
    [tag |-> tag, id |-> IF attrs THEN <<"i">> ELSE AttrNone,
     name |-> IF attrs THEN <<"n">> ELSE AttrNone, text |-> text,
     children |-> children]

\* the children of the root: diagrams, and an element of another tag that
\* holds a diagram whose text is not well-formed
ChildPool ==
    {Child("diagram", TRUE, text, <<>>) : text \in BodyTexts}
    \cup {Child("diagram", FALSE, <<"<", "a", "/", ">">>, <<>>)}
    \cup {Child("diagram", TRUE, AttrNone,
                <<Child("mxGraphModel", FALSE, AttrNone, <<>>)>>)}
    \cup {Child("other", TRUE, AttrNone,
                <<Child("diagram", TRUE, <<"<", "a", ">">>, <<>>)>>)}

\* the entry or error of every diagram element of ChildPool, computed once
DiagramEntries ==
    [c \in {c \in ChildPool : c.tag = "diagram"} |-> DiagramEntry(c)]

\* the entries of the diagram elements, in order
Entries(elems) == [i \in 1..Len(elems) |-> DiagramEntries[elems[i]]]

\* the parsed data of a document with these entries; one failed entry
\* fails the whole call
ParsedData(doc, entries) ==
    IF \E i \in 1..Len(entries) : ~entries[i].ok THEN ValueError
    ELSE Ok([file_info |-> FileInfo(doc),
             diagrams |-> [i \in 1..Len(entries) |-> entries[i].v]])

\* parse_xml_string without the test of the root tag
parse_any_root(doc) ==
    IF ~doc.wellformed THEN ValueError
    ELSE ParsedData(doc, Entries(findall_diagram(doc)))

\* DrawioParser.parse_xml_string: the parsed data, or ValueError
parse_xml_string(doc) ==
    IF ~doc.wellformed THEN ValueError
    ELSE IF doc.tag # "mxfile" THEN ValueError
    ELSE ParsedData(doc, Entries(findall_diagram(doc)))

\* DrawioParser.parse_file: the same statements on the tree ET.parse yields;
\* a file that cannot be read is a ValueError as well
parse_file(doc, readable) ==
    IF ~readable THEN ValueError ELSE parse_xml_string(doc)

MaxChildren == 2

\* the outer document: not well-formed, or a tree with its root tag and
\* with or without the optional attributes
Doc(wellformed, tag, attrs, children) ==
    LET a(text) == IF attrs THEN text ELSE AttrNone IN
    [wellformed |-> wellformed, tag |-> tag, host |-> a(<<"h">>),
     modified |-> a(<<"m">>), agent |-> a(<<"g">>), version |-> a(<<"v">>),
     type |-> a(<<"t">>), children |-> children]

ParseDocs ==
    LET seqs == UNION {[1..n -> ChildPool] : n \in 0..MaxChildren} IN
    {Doc(TRUE, "mxfile", attrs, cs) : attrs \in BOOLEAN, cs \in seqs}
    \cup {Doc(TRUE, "mxGraphModel", TRUE, cs) : cs \in seqs}
    \cup {Doc(FALSE, "mxfile", TRUE, cs) : cs \in seqs}

InitParse ==
    /\ parseDoc \in ParseDocs
    /\ parseOut = Ok(<<>>)
    /\ parsePc = "start"
    /\ StyleIdle /\ GraphIdle /\ CodecIdle /\ SaveIdle /\ RenderIdle

\* DrawioParser().parse_xml_string(xml_string)
ParseString ==
    /\ parsePc = "start"
    /\ parseOut' = parse_xml_string(parseDoc)
    /\ parsePc' = "parsed"
    /\ UNCHANGED parseDoc
    /\ UNCHANGED <<styleVars, graphVars, codecVars, saveVars, renderVars>>

\* DrawioParser().parse_file(file_path), the file readable or not
ParseFile(readable) ==
    /\ parsePc = "start"
    /\ parseOut' = parse_file(parseDoc, readable)
    /\ parsePc' = IF readable THEN "parsedFile" ELSE "unreadable"
    /\ UNCHANGED parseDoc
    /\ UNCHANGED <<styleVars, graphVars, codecVars, saveVars, renderVars>>

NextParse ==
    \/ ParseString
    \/ \E readable \in BOOLEAN : ParseFile(readable)

SpecParse == InitParse /\ [][NextParse]_vars

\* the text of a diagram after strip(), '' when there is none
BodyOf(child) == IF child.text = AttrNone THEN <<>> ELSE Strip(child.text)

\* the body is judged compressed and does not decompress, or is (after
\* decompression) not well-formed markup
BodyFails(child) ==
    IF is_compressed(BodyOf(child))
    THEN \/ ~decompress(BodyOf(child)).ok
         \/ ~fromstring(decompress(BodyOf(child)).v).ok
    ELSE ~fromstring(BodyOf(child)).ok

\* the diagram elements of ChildPool whose body fails
FailingDiagrams == {c \in ChildPool : c.tag = "diagram" /\ BodyFails(c)}

\* the tree of the body of every other diagram element of ChildPool
ContentTrees ==
    [c \in {c \in ChildPool : c.tag = "diagram"} \ FailingDiagrams |->
        IF is_compressed(BodyOf(c)) THEN fromstring(decompress(BodyOf(c)).v).v
        ELSE fromstring(BodyOf(c)).v]

\* the call raised ValueError
IsValueError(result) == ~result.ok /\ result.v = "ValueError"

\* the direct children of the root that are diagrams, in document order
DirectDiagrams == SelectSeq(parseDoc.children, LAMBDA c : c.tag = "diagram")

\* C8: a call of parse_xml_string or parse_file ends in ValueError, with no
\* result, when the document is not well-formed, its root tag is not
\* 'mxfile', or the body of a direct diagram child fails; otherwise it
\* returns file_info, every absent attribute as '', and exactly one entry
\* per direct diagram child in document order, absent id and name as ''.
C8_ParseAllOrNothing ==
    /\ parsePc = "unreadable" => IsValueError(parseOut)
    /\ parsePc \in {"parsed", "parsedFile"} =>
          IF \/ ~parseDoc.wellformed
             \/ parseDoc.tag # "mxfile"
             \/ \E i \in 1..Len(DirectDiagrams) : DirectDiagrams[i] \in FailingDiagrams
          THEN IsValueError(parseOut)
          ELSE /\ parseOut.ok
               /\ \A k \in {"host", "modified", "agent", "version", "type"} :
                     parseOut.v.file_info[k] =
                        (IF parseDoc[k] = AttrNone THEN <<>> ELSE parseDoc[k])
               /\ Len(parseOut.v.diagrams) = Len(DirectDiagrams)
               /\ \A i \in 1..Len(DirectDiagrams) :
                     LET d == DirectDiagrams[i]
                         e == parseOut.v.diagrams[i]
                     IN  /\ e.id = (IF d.id = AttrNone THEN <<>> ELSE d.id)
                         /\ e.name = (IF d.name = AttrNone THEN <<>> ELSE d.name)
                         /\ e.content = ContentTrees[d]

\* a parse that succeeds on a document without the optional attributes
\* whose root holds a diagram without id and name and a diagram nested in
\* another element
C8_Witness ==
    /\ parsePc \in {"parsed", "parsedFile"}
    /\ parseOut.ok
    /\ parseDoc.host = AttrNone
    /\ Len(parseDoc.children) > Len(DirectDiagrams)
    /\ Len(DirectDiagrams) > 0
    /\ DirectDiagrams[1].id = AttrNone

\* the bodies the writer writes for inner markup, plain and compressed
WrittenTexts ==
    [x \in XmlTexts |-> {x} \cup {compress(x, d).v : d \in DeflateChoices}]

\* the body is the inner markup x as the writer writes it, plain or compressed
WrittenFrom(text, x) == text \in WrittenTexts[x]

\* C9: when every diagram of a well-formed mxfile document holds inner
\* markup as the writer writes it, plain or compressed, the parse succeeds,
\* and two diagrams written from the same markup, whichever way, have the
\* same content tree: the tree of that markup.
C9_CompressionTransparent ==
    ( /\ parsePc = "parsed"
      /\ parseDoc.wellformed
      /\ parseDoc.tag = "mxfile"
      /\ \A i \in 1..Len(DirectDiagrams) :
            \E x \in XmlTexts : WrittenFrom(DirectDiagrams[i].text, x) )
    => /\ parseOut.ok
       /\ \A i \in 1..Len(DirectDiagrams) : \A x \in XmlTexts :
             WrittenFrom(DirectDiagrams[i].text, x) =>
                parseOut.v.diagrams[i].content = fromstring(x).v

\* a parsed two-sheet document, one sheet compressed and one plain, both
\* written from the same markup
C9_Witness ==
    /\ parsePc = "parsed"
    /\ parseOut.ok
    /\ Len(DirectDiagrams) = 2
    /\ \E x \in XmlTexts :
          /\ DirectDiagrams[1].text # x
          /\ WrittenFrom(DirectDiagrams[1].text, x)
          /\ DirectDiagrams[2].text = x
          /\ parseOut.v.diagrams[1].content = parseOut.v.diagrams[2].content

(***************************************************************************)
(* Saving to a file.  DrawioWriter.write_file, DiagramRenderer.            *)
(* save_page_as_svg and DiagramRenderer.save_page_as_html have one body:   *)
(*                                                                         *)
(*     try:                                                                *)
(*         content = <convert_file_to_xml | render_page_to_svg |           *)
(*                    render_page_to_html>(...)                            *)
(*         with open(file_path, "w", encoding="utf-8") as f:               *)
(*             f.write(content)                                            *)
(*         return True                                                     *)
(*     except Exception as e:                                              *)
(*         print(...)                                                      *)
(*         return False                                                    *)
(*                                                                         *)
(* The call is modelled statement by statement.  Each statement either     *)
(* completes or raises; what it raises is an instance of a subclass of     *)
(* Exception, and the print of the handler completes.                      *)
(***************************************************************************)

SaveOps == {"write_file", "save_page_as_svg", "save_page_as_html"}

\* the longest output string and the longest old content of the target
MaxDoc == 2

SaveChars == {"x", "y"}

SaveTexts == UNION {[1..n -> SaveChars] : n \in 0..MaxDoc}

SaveDisks == {NoFile} \cup {OnDisk(text) : text \in SaveTexts}

\* what the conversion of the try body's first statement can raise, what
\* open, f.write and the close at the end of the with block can raise
ConvertErrors == {"AttributeError", "TypeError"}

OpenErrors == {"OSError"}

WriteErrors == {"OSError", "UnicodeEncodeError"}

CloseErrors == {"OSError"}

\* a handler that catches the errors of the file system only
except_OSError(cls) == cls = "OSError"

\* except Exception: every class above derives from Exception
except_Exception(cls) ==
    cls \in ConvertErrors \cup OpenErrors \cup WriteErrors \cup CloseErrors

\* a statement of the try body raised cls: the handler prints and returns
\* False when the except clause matches, the exception leaves the call when
\* it does not
Raise(at, cls) ==
    /\ saveRaised' = [at |-> at, cls |-> cls]
    /\ IF except_Exception(cls)
       THEN saveRet' = "False" /\ savePc' = "returned"
       ELSE saveRet' = saveRet /\ savePc' = "escaped"

InitSave ==
    /\ saveOp \in SaveOps
    /\ saveOld \in SaveDisks
    /\ saveDisk = saveOld
    /\ saveContent = Raised
    /\ saveRaised = NoRaise
    /\ saveRet = "none"
    /\ savePc = "called"
    /\ StyleIdle /\ GraphIdle /\ CodecIdle /\ ParseIdle /\ RenderIdle

\* xml_content = self.convert_file_to_xml(file), svg_content = self.
\* render_page_to_svg(page), html_content = self.render_page_to_html(...)
SaveConvert(text) ==
    /\ savePc = "called"
    /\ saveContent' = Ok(text)
    /\ savePc' = "built"
    /\ UNCHANGED <<saveOp, saveOld, saveDisk, saveRaised, saveRet>>
    /\ UNCHANGED <<styleVars, graphVars, codecVars, parseVars, renderVars>>

\* the same statement, raising
SaveConvertRaises(cls) ==
    /\ savePc = "called"
    /\ saveContent' = Raised
    /\ Raise("convert", cls)
    /\ UNCHANGED <<saveOp, saveOld, saveDisk>>
    /\ UNCHANGED <<styleVars, graphVars, codecVars, parseVars, renderVars>>

\* open(file_path, "w", encoding="utf-8"): creates the file or truncates it
SaveOpen ==
    /\ savePc = "built"
    /\ saveDisk' = OnDisk(<<>>)
    /\ savePc' = "opened"
    /\ UNCHANGED <<saveOp, saveOld, saveContent, saveRaised, saveRet>>
    /\ UNCHANGED <<styleVars, graphVars, codecVars, parseVars, renderVars>>

\* open raising: the file is left as it is
SaveOpenRaises(cls) ==
    /\ savePc = "built"
    /\ Raise("open", cls)
    /\ UNCHANGED <<saveOp, saveOld, saveDisk, saveContent>>
    /\ UNCHANGED <<styleVars, graphVars, codecVars, parseVars, renderVars>>

\* f.write(content): the text goes to the stream of the file
SaveWrite ==
    /\ savePc = "opened"
    /\ savePc' = "written"
    /\ UNCHANGED <<saveOp, saveOld, saveDisk, saveContent, saveRaised, saveRet>>
    /\ UNCHANGED <<styleVars, graphVars, codecVars, parseVars, renderVars>>

\* f.write raising: the with block closes the file, which holds the first
\* n characters, fewer than the whole text
SaveWriteRaises(cls, n) ==
    /\ savePc = "opened"
    /\ n < Len(saveContent.v)
    /\ saveDisk' = OnDisk(SubSeq(saveContent.v, 1, n))
    /\ Raise("write", cls)
    /\ UNCHANGED <<saveOp, saveOld, saveContent>>
    /\ UNCHANGED <<styleVars, graphVars, codecVars, parseVars, renderVars>>

\* the end of the with block flushes and closes the file; return True
SaveClose ==
    /\ savePc = "written"
    /\ saveDisk' = OnDisk(saveContent.v)
    /\ saveRet' = "True"
    /\ savePc' = "returned"
    /\ UNCHANGED <<saveOp, saveOld, saveContent, saveRaised>>
    /\ UNCHANGED <<styleVars, graphVars, codecVars, parseVars, renderVars>>

\* the flush of the close raising: the file holds the first n characters
SaveCloseRaises(cls, n) ==
    /\ savePc = "written"
    /\ saveDisk' = OnDisk(SubSeq(saveContent.v, 1, n))
    /\ Raise("close", cls)
    /\ UNCHANGED <<saveOp, saveOld, saveContent>>
    /\ UNCHANGED <<styleVars, graphVars, codecVars, parseVars, renderVars>>

NextSave ==
    \/ \E text \in SaveTexts : SaveConvert(text)
    \/ \E cls \in ConvertErrors : SaveConvertRaises(cls)
    \/ SaveOpen
    \/ \E cls \in OpenErrors : SaveOpenRaises(cls)
    \/ SaveWrite
    \/ \E cls \in WriteErrors : \E n \in 0..MaxDoc : SaveWriteRaises(cls, n)
    \/ SaveClose
    \/ \E cls \in CloseErrors : \E n \in 0..MaxDoc :
          n <= Len(saveContent.v) /\ SaveCloseRaises(cls, n)

SpecSave == InitSave /\ [][NextSave]_vars

(***************************************************************************)
(* Claims about saving                                                     *)
(***************************************************************************)

EmptyBody(child) == child.text = AttrNone \/ Strip(child.text) = <<>>

Padding == 20
GridSize == 10

KeyShape == <<"s", "h", "a", "p", "e">>
KeyRounded == <<"r", "o", "u", "n", "d", "e", "d">>
KeyDashed == <<"d", "a", "s", "h", "e", "d">>
KeyEdgeStyle == <<"e", "d", "g", "e", "S", "t", "y", "l", "e">>
KeyFillColor == <<"f", "i", "l", "l", "C", "o", "l", "o", "r">>
KeyStrokeColor == <<"s", "t", "r", "o", "k", "e", "C", "o", "l", "o", "r">>

\* the least and the greatest of a non-empty set of numbers
Least(S) == CHOOSE m \in S : \A n \in S : m <= n
Greatest(S) == CHOOSE m \in S : \A n \in S : n <= m

\* the places of the page that hold an Object (isinstance(obj, Object))
ObjectPlaces(h) == {k \in 1..Len(h) : h[k].cls = "Object"}

\* DiagramRenderer._calculate_page_bounds
_calculate_page_bounds(h) ==
    IF ObjectPlaces(h) = {}
    THEN [min_x |-> 0, min_y |-> 0, max_x |-> 100, max_y |-> 100,
          width |-> 100, height |-> 100]
    ELSE LET min_x == Least({h[k].x.n : k \in ObjectPlaces(h)})
             min_y == Least({h[k].y.n : k \in ObjectPlaces(h)})
             max_x == Greatest({h[k].x.n + h[k].width.n : k \in ObjectPlaces(h)})
             max_y == Greatest({h[k].y.n + h[k].height.n : k \in ObjectPlaces(h)})
         IN  [min_x |-> min_x, min_y |-> min_y, max_x |-> max_x, max_y |-> max_y,
              width |-> max_x - min_x, height |-> max_y - min_y]

\* range(start, stop, GridSize)
GridRange(start, stop) ==
    [i \in 1..((stop - start + GridSize - 1) \div GridSize) |-> start + (i - 1) * GridSize]

\* DiagramRenderer._draw_grid: the group of the grid lines, the bounds
\* rounded outwards to the grid
_draw_grid(bounds) ==
    LET min_x == (bounds.min_x \div GridSize) * GridSize
        min_y == (bounds.min_y \div GridSize) * GridSize
        max_x == ((bounds.max_x + GridSize - 1) \div GridSize) * GridSize
        max_y == ((bounds.max_y + GridSize - 1) \div GridSize) * GridSize
    IN  [class |-> "grid", of |-> 0,
         vertical |-> GridRange(min_x, max_x + 1),
         horizontal |-> GridRange(min_y, max_y + 1)]

\* the figure drawn for a shape type
ShapeTag(shape_type) ==
    CASE shape_type = PyStr(<<"e", "l", "l", "i", "p", "s", "e">>) -> "ellipse"
      [] shape_type = PyStr(<<"r", "h", "o", "m", "b", "u", "s">>) -> "polygon"
      [] shape_type = PyStr(<<"t", "r", "i", "a", "n", "g", "l", "e">>) -> "polygon"
      [] shape_type = PyStr(<<"h", "e", "x", "a", "g", "o", "n">>) -> "polygon"
      [] shape_type = PyStr(<<"c", "y", "l", "i", "n", "d", "e", "r">>) -> "g"
      [] OTHER -> "rect"

\* rx = "5" if rounded == "1" else "0", for a value that is the integer 1
\* as parse_style returns it
RxOfInt(rounded) == IF rounded = PyInt(1) THEN <<"5">> ELSE <<"0">>

\* rx = "5" if rounded == "1" else "0": the comparison is with the str '1'
RxOf(rounded) == IF rounded = PyStr(<<"1">>) THEN <<"5">> ELSE <<"0">>

\* the group of an Object, given its style mapping
ObjectGroup(obj, o, style_dict) ==
    [class |-> "object", of |-> obj,
     tag |-> ShapeTag(DictGet(style_dict, KeyShape, PyStr(<<"r", "e", "c", "t", "a", "n", "g", "l", "e">>))),
     x |-> PyToStr(o.x), y |-> PyToStr(o.y),
     width |-> PyToStr(o.width), height |-> PyToStr(o.height),
     rx |-> IF ShapeTag(DictGet(style_dict, KeyShape, PyStr(<<"r", "e", "c", "t", "a", "n", "g", "l", "e">>))) = "rect"
            THEN RxOf(DictGet(style_dict, KeyRounded, PyStr(<<"0">>)))
            ELSE AttrNone,
     fill |-> DictGet(style_dict, KeyFillColor, PyStr(<<"#", "f", "f", "f", "f", "f", "f">>)),
     stroke |-> DictGet(style_dict, KeyStrokeColor, PyStr(<<"#", "0", "0", "0", "0", "0", "0">>)),
     text |-> IF o.value # <<>> THEN o.value ELSE AttrNone]

\* DiagramRenderer._render_object_to_svg: the groups appended (one)
_render_object_to_svg(h, obj) ==
    <<ObjectGroup(obj, h[obj], parse_style(get_style_string(h[obj])).v)>>

\* if style_dict.get("dashed", "0") == "1", for a value that is the
\* integer 1 as parse_style returns it
IsDashedInt(dashed) == dashed = PyInt(1)

\* if style_dict.get("dashed", "0") == "1"
IsDashed(dashed) == dashed = PyStr(<<"1">>)

\* the group of an Edge, given its style mapping: the path runs between the
\* boxes of the source and the target
EdgeGroup(edge, e, style_dict) ==
    [class |-> "edge", of |-> edge, tag |-> "path",
     edge_style |-> DictGet(style_dict, KeyEdgeStyle, PyStr(<<"o", "r", "t", "h", "o", "g", "o", "n", "a", "l", "E", "d", "g", "e", "S", "t", "y", "l", "e">>)),
     from |-> e.source, to |-> e.target,
     stroke |-> DictGet(style_dict, KeyStrokeColor, PyStr(<<"#", "0", "0", "0", "0", "0", "0">>)),
     dasharray |-> IF IsDashed(DictGet(style_dict, KeyDashed, PyStr(<<"0">>)))
                   THEN <<"5", ",", "5">> ELSE AttrNone,
     text |-> IF e.value # <<>> THEN e.value ELSE AttrNone]

\* _render_edge_to_svg without the early return
render_edge_no_skip(h, edge) ==
    <<EdgeGroup(edge, h[edge], parse_style(get_style_string(h[edge])).v)>>

\* DiagramRenderer._render_edge_to_svg: the groups appended (none for an
\* edge without source or without target)
_render_edge_to_svg(h, edge) ==
    IF h[edge].source = 0 \/ h[edge].target = 0 THEN <<>>
    ELSE <<EdgeGroup(edge, h[edge], parse_style(get_style_string(h[edge])).v)>>

RECURSIVE DrawObjects(_, _)
\* the loop "Draw all objects", from place k on
DrawObjects(h, k) ==
    IF k > Len(h) THEN <<>>
    ELSE (IF h[k].cls = "Object" THEN _render_object_to_svg(h, k) ELSE <<>>)
         \o DrawObjects(h, k + 1)

RECURSIVE DrawEdges(_, _)
\* the loop "Draw all edges", from place k on
DrawEdges(h, k) ==
    IF k > Len(h) THEN <<>>
    ELSE (IF h[k].cls = "Edge" THEN _render_edge_to_svg(h, k) ELSE <<>>)
         \o DrawEdges(h, k + 1)

\* the <svg> element, given the bounds and the children of the content group
SvgElement(bounds, children) ==
    [width |-> NatToDigits(bounds.width + 2 * Padding),
     height |-> NatToDigits(bounds.height + 2 * Padding),
     viewBox |-> <<T0, T0, NatToDigits(bounds.width + 2 * Padding),
                   NatToDigits(bounds.height + 2 * Padding)>>,
     translate |-> <<NatToDigits(Padding), NatToDigits(Padding)>>,
     children |-> children]

\* DiagramRenderer.render_page_to_svg
render_page_to_svg(h, grid) ==
    SvgElement(_calculate_page_bounds(h),
               (IF grid THEN <<_draw_grid(_calculate_page_bounds(h))>> ELSE <<>>)
                   \o DrawObjects(h, 1) \o DrawEdges(h, 1))

(***************************************************************************)
(* Calls of DiagramRenderer.  A renderer is given a page of up to MaxDrawn *)
(* elements.                                                               *)
(***************************************************************************)
MaxDrawn == 4

\* Object(...) at a position, with a size and a style
DrawnShape(value, x, y, width, height, style_text) ==
    [NewElement("Object", value) EXCEPT
         !.x = PyInt(x), !.y = PyInt(y), !.width = PyInt(width),
         !.height = PyInt(height), !.style = apply_style_string(style_text)]

\* Edge(source=..., target=...) with a style; the links are places, 0 for None
DrawnEdge(value, source, target, style_text) ==
    [NewElement("Edge", value) EXCEPT
         !.source = source, !.target = target,
         !.style = apply_style_string(style_text)]

DrawnPool ==
    { DrawnShape(<<"A">>, 0, 0, 120, 60, <<>>),
      DrawnShape(<<>>, 30, 40, 40, 20, <<"r", "o", "u", "n", "d", "e", "d", "=", "1">>),
      DrawnShape(<<>>, 50, 10, 20, 20, <<"s", "h", "a", "p", "e", "=", "r", "e", "c", "t", "a", "n", "g", "l", "e", ";", "r", "o", "u", "n", "d", "e", "d", "=", "0">>),
      DrawnShape(<<"B">>, 25, 25, 10, 10, <<"s", "h", "a", "p", "e", "=", "e", "l", "l", "i", "p", "s", "e">>),
      DrawnEdge(<<>>, 1, 2, <<>>),
      DrawnEdge(<<"L">>, 2, 3, <<"d", "a", "s", "h", "e", "d", "=", "1">>),
      DrawnEdge(<<>>, 3, 1, <<"e", "d", "g", "e", "S", "t", "y", "l", "e", "=", "e", "l", "b", "o", "w", "E", "d", "g", "e", "S", "t", "y", "l", "e">>),
      DrawnEdge(<<>>, 0, 1, <<"d", "a", "s", "h", "e", "d", "=", "1">>),
      DrawnEdge(<<>>, 1, 0, <<>>) }

\* a link of a page is None or the place of a shape of the page
LinksOk(h) ==
    \A k \in 1..Len(h) : \A r \in {h[k].source, h[k].target} :
        r # 0 => (r <= Len(h) /\ h[r].cls = "Object")

DrawnPages ==
    {h \in UNION {[1..n -> DrawnPool] : n \in 0..MaxDrawn} : LinksOk(h)}

InitRender ==
    /\ drawn \in DrawnPages
    /\ show_grid = FALSE
    /\ svg = <<>>
    /\ renderPc = "start"
    /\ StyleIdle /\ GraphIdle /\ CodecIdle /\ ParseIdle /\ SaveIdle

\* renderer.show_grid = True
ShowGrid ==
    /\ renderPc = "start"
    /\ ~show_grid
    /\ show_grid' = TRUE
    /\ UNCHANGED <<drawn, svg, renderPc>>
    /\ UNCHANGED <<styleVars, graphVars, codecVars, parseVars, saveVars>>

\* renderer.render_page_to_svg(page)
RenderPageToSvg ==
    /\ renderPc = "start"
    /\ svg' = render_page_to_svg(drawn, show_grid)
    /\ renderPc' = "rendered"
    /\ UNCHANGED <<drawn, show_grid>>
    /\ UNCHANGED <<styleVars, graphVars, codecVars, parseVars, saveVars>>

NextRender ==
    \/ ShowGrid
    \/ RenderPageToSvg

SpecRender == InitRender /\ [][NextRender]_vars

(***************************************************************************)
(* Claims about rendering                                                  *)
(***************************************************************************)
\* the groups of the elements: the children of the content group but the grid
ElementGroups == SelectSeq(svg.children, LAMBDA g : g.class # "grid")

\* the places of the page with an element of the class, in page order
DrawnPlaces(cls) ==
    SelectSeq([k \in 1..Len(drawn) |-> k], LAMBDA k : drawn[k].cls = cls)

\* the connector has a source and a target
Linked(k) == drawn[k].source # 0 /\ drawn[k].target # 0

\* C25: in the SVG of a page, whatever the interleaving of its shapes and
\* connectors, the groups are those of all shapes in page order followed
\* by those of the connectors that have a source and a target in page
\* order; a connector without source or without target has no group.
C25_RenderLayering ==
    renderPc = "rendered" =>
        LET places == DrawnPlaces("Object") \o SelectSeq(DrawnPlaces("Edge"), Linked)
        IN  /\ Len(ElementGroups) = Len(places)
            /\ \A j \in 1..Len(places) :
                  /\ ElementGroups[j].of = places[j]
                  /\ ElementGroups[j].class =
                        (IF j <= Len(DrawnPlaces("Object")) THEN "object" ELSE "edge")

\* a rendered page [shape, connector 3 -> 1, shape, connector without
\* target], the grid shown: the groups are those of the two shapes, then
\* that of the first connector, and the second connector has none
C25_Witness ==
    /\ renderPc = "rendered"
    /\ show_grid
    /\ Len(drawn) = 4
    /\ drawn[1].cls = "Object" /\ drawn[3].cls = "Object"
    /\ drawn[2].cls = "Edge" /\ Linked(2)
    /\ drawn[4].cls = "Edge" /\ drawn[4].source # 0 /\ drawn[4].target = 0
    /\ Len(ElementGroups) = 3
    /\ ElementGroups[1].of = 1 /\ ElementGroups[2].of = 3
    /\ ElementGroups[3].of = 2

\* the style mapping the renderer reads: parse_style of the style string
StyleRead(k) == parse_style(get_style_string(drawn[k])).v

\* the shape is drawn as a rectangle: no shape key, or shape=rectangle
IsRectangle(k) ==
    DictGet(StyleRead(k), KeyShape, PyStr(<<"r", "e", "c", "t", "a", "n", "g", "l", "e">>)) = PyStr(<<"r", "e", "c", "t", "a", "n", "g", "l", "e">>)

\* C24: in the SVG of a page, the group of a shape without a shape key or
\* with shape=rectangle is a rect whose rx is '5' when the style holds
\* rounded=1 (the integer 1 after parse_style) and '0' otherwise; the path
\* of a connector whose style holds dashed=1 has a stroke-dasharray.
C24_RoundedAndDashed ==
    renderPc = "rendered" =>
        \A j \in 1..Len(ElementGroups) :
            LET g == ElementGroups[j] IN
            /\ (g.class = "object" /\ IsRectangle(g.of)) =>
                  /\ g.tag = "rect"
                  /\ g.rx = IF DictGet(StyleRead(g.of), KeyRounded, PyNone) = PyInt(1)
                            THEN <<"5">> ELSE <<"0">>
            /\ (g.class = "edge"
                  /\ DictGet(StyleRead(g.of), KeyDashed, PyNone) = PyInt(1)) =>
                  g.dasharray # AttrNone

\* the number a decimal text stands for
NumOf(text) == DigitsToNat(text)

\* C30: in the SVG of a page with at least one shape, width and height are
\* those of the shapes' bounding box plus twice the padding, and every
\* shape's rectangle, moved by the translate of the content group, lies
\* inside the viewBox 0 0 width height; a page with no shape has the
\* bounding box 100 by 100.
C30_ViewportContainsContent ==
    renderPc = "rendered" =>
        LET bounds == _calculate_page_bounds(drawn)
            tx == NumOf(svg.translate[1])
            ty == NumOf(svg.translate[2])
        IN  /\ NumOf(svg.width) = bounds.width + 2 * Padding
            /\ NumOf(svg.height) = bounds.height + 2 * Padding
            /\ svg.viewBox = <<T0, T0, svg.width, svg.height>>
            /\ ObjectPlaces(drawn) = {} => bounds.width = 100 /\ bounds.height = 100
            /\ \A k \in ObjectPlaces(drawn) :
                  /\ drawn[k].x.n + drawn[k].width.n + tx <= NumOf(svg.width)
                  /\ drawn[k].y.n + drawn[k].height.n + ty <= NumOf(svg.height)

====
